---------------------------- MODULE Spec2Model ----------------------------
(***************************************************************************)
(* Credential & token security subsystem of the user-management domain     *)
(* model: the password-lockout state machine of UserCredentials, the       *)
(* AuthenticationToken lifecycle, and the AuthenticationService that       *)
(* orchestrates login, token validation, logout, bulk revocation and       *)
(* cleanup over the in-memory repositories.                                *)
(*                                                                         *)
(* Time is measured in minutes since the start of the run; `now` stands    *)
(* for datetime.now(timezone.utc).  The bookkeeping timestamps updated_at   *)
(* and password_last_changed (and created_at of every entity but the token *)
(* record) are written but never read by the modelled code and are left    *)
(* out of the records.                                                     *)
(***************************************************************************)
EXTENDS Integers, Sequences, FiniteSets, TLC

(***************************************************************************)
(* Program constants                                                       *)
(***************************************************************************)
MAX_FAILED_ATTEMPTS == 5

LOCKOUT_DURATION_MINUTES == 30

MIN_PASSWORD_LENGTH == 6

ACCESS_TOKEN_EXPIRY_HOURS == 24

REFRESH_TOKEN_EXPIRY_DAYS == 30

\* Optional[datetime] = None
NoTime == -1

\* Optional[str] = None
NoReason == "<None>"

(***************************************************************************)
(* Bounds of the model                                                     *)
(***************************************************************************)
\* last clock value of the credential-record specification
MaxTimeCred == 62

\* steps by which the clock of the credential-record specification advances:
\* just short of, exactly, and just past the lockout window
CredTickSteps == {LOCKOUT_DURATION_MINUTES - 1, LOCKOUT_DURATION_MINUTES,
                  LOCKOUT_DURATION_MINUTES + 1}

Users == {"u1", "u2"}

\* the user the operations are exercised on
CredUsers == {"u1"}

\* a str holding a lone surrogate: str.encode('utf-8') raises on it
LoneSurrogatePw == "pass<surrogate>"

\* passwords offered to the credential operations: two acceptable ones, the
\* empty string, one below the minimum length, one that cannot be encoded
Passwords == {"secret1", "newpass9", "", "abc", LoneSurrogatePw}

InitialPassword == "secret1"

VARIABLES
    now,          \* the clock
    users,        \* UserRepository._storage: user id -> User
    credentials,  \* UserCredentialsRepository._storage, by user_id
    tokens,       \* AuthenticationTokenRepository._storage, in insertion order
    audit,        \* SecurityAuditLogRepository._storage, in insertion order
    nextId,       \* number of token records created so far (uuid4 source)
    last,         \* the last call: operation, what it found, exception, result
    streak,       \* history: wrong non-empty verifications in a row, per user
    lastFailAt,   \* history: time of the last such verification, per user
    calls         \* the calls in flight: per thread, its position and locals

vars == <<now, users, credentials, tokens, audit, nextId, last, streak, lastFailAt, calls>>

(***************************************************************************)
(* UserCredentials                                                         *)
(***************************************************************************)
Encodable(p) == p # LoneSurrogatePw

\* bcrypt.hashpw: a one-way image of the password (the salt is not modelled)
HashOf(p) == <<"bcrypt", p>>

\* bcrypt.checkpw
checkpw(p, h) == h = HashOf(p)

\* the exception _validate_password / str.encode raise, "" when none
hash_password_exc(p) ==
    IF p = "" THEN "ValidationException"
    ELSE IF Len(p) < MIN_PASSWORD_LENGTH THEN "ValidationException"
    ELSE IF ~Encodable(p) THEN "UnicodeEncodeError"
    ELSE ""

NewCredentials(p, must_change) ==
    [password_hash |-> HashOf(p),
     failed_login_attempts |-> 0,
     account_locked_until |-> NoTime,
     must_change_password |-> must_change]

increment_failed_attempts_NoLock(c, t) ==
    [c EXCEPT !.failed_login_attempts = @ + 1,
              !.account_locked_until =
                  IF c.failed_login_attempts + 1 > MAX_FAILED_ATTEMPTS
                  THEN t + LOCKOUT_DURATION_MINUTES ELSE @]

increment_failed_attempts(c, t) ==
    [c EXCEPT !.failed_login_attempts = @ + 1,
              !.account_locked_until =
                  IF c.failed_login_attempts + 1 >= MAX_FAILED_ATTEMPTS
                  THEN t + LOCKOUT_DURATION_MINUTES ELSE @]

reset_failed_attempts_KeepCounter(c) ==
    [c EXCEPT !.account_locked_until = NoTime]

reset_failed_attempts(c) ==
    [c EXCEPT !.failed_login_attempts = 0, !.account_locked_until = NoTime]

\* is_account_locked returns a flag and, when the window has elapsed, resets
is_account_locked_NoReset(c, t) ==
    IF c.account_locked_until = NoTime THEN [ret |-> FALSE, cred |-> c]
    ELSE IF t >= c.account_locked_until THEN [ret |-> FALSE, cred |-> c]
    ELSE [ret |-> TRUE, cred |-> c]

is_account_locked(c, t) ==
    IF c.account_locked_until = NoTime THEN [ret |-> FALSE, cred |-> c]
    ELSE IF t >= c.account_locked_until
         THEN [ret |-> FALSE, cred |-> reset_failed_attempts(c)]
    ELSE [ret |-> TRUE, cred |-> c]

verify_password_LockAfterPassword(c, p, t) ==
    IF p = "" THEN [exc |-> "", ret |-> FALSE, cred |-> c]
    ELSE IF Encodable(p) /\ checkpw(p, c.password_hash)
         THEN [exc |-> "", ret |-> TRUE, cred |-> reset_failed_attempts(c)]
    ELSE IF is_account_locked(c, t).ret
         THEN [exc |-> "AccountLockedException", ret |-> FALSE, cred |-> c]
    ELSE [exc |-> "", ret |-> FALSE, cred |-> increment_failed_attempts(c, t)]

verify_password_CountEmpty(c, p, t) ==
    LET l == is_account_locked(c, t) IN
    IF l.ret THEN [exc |-> "AccountLockedException", ret |-> FALSE, cred |-> l.cred]
    ELSE IF p # "" /\ Encodable(p) /\ checkpw(p, l.cred.password_hash)
         THEN [exc |-> "", ret |-> TRUE, cred |-> reset_failed_attempts(l.cred)]
    ELSE [exc |-> "", ret |-> FALSE, cred |-> increment_failed_attempts(l.cred, t)]

verify_password_NoResetOnSuccess(c, p, t) ==
    LET l == is_account_locked(c, t) IN
    IF l.ret THEN [exc |-> "AccountLockedException", ret |-> FALSE, cred |-> l.cred]
    ELSE IF p = "" THEN [exc |-> "", ret |-> FALSE, cred |-> l.cred]
    ELSE IF ~Encodable(p)
         THEN [exc |-> "", ret |-> FALSE, cred |-> increment_failed_attempts(l.cred, t)]
    ELSE IF checkpw(p, l.cred.password_hash)
         THEN [exc |-> "", ret |-> TRUE, cred |-> l.cred]
    ELSE [exc |-> "", ret |-> FALSE, cred |-> increment_failed_attempts(l.cred, t)]

\* verify_password: the result, the exception raised ("" when none) and the
\* record as the call leaves it
verify_password(c, p, t) ==
    LET l == is_account_locked(c, t) IN
    IF l.ret THEN [exc |-> "AccountLockedException", ret |-> FALSE, cred |-> l.cred]
    ELSE IF p = "" THEN [exc |-> "", ret |-> FALSE, cred |-> l.cred]
    ELSE IF ~Encodable(p)
         \* password.encode raises inside the try block: except Exception
         THEN [exc |-> "", ret |-> FALSE, cred |-> increment_failed_attempts(l.cred, t)]
    ELSE IF checkpw(p, l.cred.password_hash)
         THEN [exc |-> "", ret |-> TRUE, cred |-> reset_failed_attempts(l.cred)]
    ELSE [exc |-> "", ret |-> FALSE, cred |-> increment_failed_attempts(l.cred, t)]

change_password_VerifyWithoutCounting(c, old, new, t) ==
    LET l == is_account_locked(c, t) IN
    IF l.ret THEN [exc |-> "AccountLockedException", cred |-> l.cred]
    ELSE IF old = "" \/ ~(Encodable(old) /\ checkpw(old, l.cred.password_hash))
         THEN [exc |-> "ValidationException", cred |-> l.cred]
    ELSE IF hash_password_exc(new) # ""
         THEN [exc |-> hash_password_exc(new), cred |-> reset_failed_attempts(l.cred)]
    ELSE [exc |-> "",
          cred |-> [reset_failed_attempts(l.cred) EXCEPT !.password_hash = HashOf(new),
                                                         !.must_change_password = FALSE]]

change_password(c, old, new, t) ==
    LET v == verify_password(c, old, t) IN
    IF v.exc # "" THEN [exc |-> v.exc, cred |-> v.cred]
    ELSE IF ~v.ret THEN [exc |-> "ValidationException", cred |-> v.cred]
    ELSE IF hash_password_exc(new) # ""
         THEN [exc |-> hash_password_exc(new), cred |-> v.cred]
    ELSE [exc |-> "",
          cred |-> [v.cred EXCEPT !.password_hash = HashOf(new),
                                  !.must_change_password = FALSE]]

reset_password_KeepLock(c, new) ==
    IF hash_password_exc(new) # ""
    THEN [exc |-> hash_password_exc(new), cred |-> c]
    ELSE [exc |-> "",
          cred |-> [c EXCEPT !.password_hash = HashOf(new),
                             !.must_change_password = FALSE]]

reset_password(c, new) ==
    IF hash_password_exc(new) # ""
    THEN [exc |-> hash_password_exc(new), cred |-> c]
    ELSE [exc |-> "",
          cred |-> reset_failed_attempts(
                      [c EXCEPT !.password_hash = HashOf(new),
                                !.must_change_password = FALSE])]

unlock_account(c) == reset_failed_attempts(c)

force_password_change(c) == [c EXCEPT !.must_change_password = TRUE]

(***************************************************************************)
(* History of wrong non-empty verifications in a row                       *)
(***************************************************************************)
WrongNonEmpty(c, p) == p # "" /\ ~(Encodable(p) /\ checkpw(p, c.password_hash))

\* the streak after a verify_password(p) call at time t on record c
StreakAfterVerify(u, c, p, t) ==
    LET lockedNow == c.account_locked_until # NoTime /\ t < c.account_locked_until
        expired   == c.account_locked_until # NoTime /\ t >= c.account_locked_until
        base      == IF expired THEN 0 ELSE streak[u]
    IN  IF lockedNow THEN streak[u]
        ELSE IF p = "" THEN base
        ELSE IF WrongNonEmpty(c, p) THEN base + 1
        ELSE 0

FailAtAfterVerify(u, c, p, t) ==
    LET lockedNow == c.account_locked_until # NoTime /\ t < c.account_locked_until
    IN  IF ~lockedNow /\ WrongNonEmpty(c, p) THEN t ELSE lastFailAt[u]

\* what a call found: the lock state and the counter of the record it read
LockState(c, t) ==
    IF c.account_locked_until = NoTime THEN "unlocked"
    ELSE IF t >= c.account_locked_until THEN "expired"
    ELSE "locked"

Pre(c, p, t) ==
    [state |-> LockState(c, t), k |-> c.failed_login_attempts,
     arg |-> IF p = "" THEN "empty"
             ELSE IF WrongNonEmpty(c, p) THEN "wrong" ELSE "correct"]

NoPre == [state |-> "", k |-> 0, arg |-> ""]

\* the result of a call: the flag it returns (or FALSE when it raises), the
\* message, and the user id, token string, token id, count and timestamp of
\* the results that carry one
Ok(b) == [ok |-> b, msg |-> "", user_id |-> "", token |-> <<>>, token_id |-> 0,
          n |-> 0, at |-> NoTime, flag |-> FALSE]

Call(op, pre, exc, ret) == [op |-> op, pre |-> pre, exc |-> exc, ret |-> ret]

(***************************************************************************)
(* Operations on one credential record                                     *)
(***************************************************************************)
VerifyPassword(u, p) ==
    /\ u \in DOMAIN credentials
    /\ LET c == credentials[u]
           v == verify_password(c, p, now)
       IN  /\ credentials' = [credentials EXCEPT ![u] = v.cred]
           /\ last' = Call("verify_password", Pre(c, p, now), v.exc, Ok(v.ret))
           /\ streak' = [streak EXCEPT ![u] = StreakAfterVerify(u, c, p, now)]
           /\ lastFailAt' = [lastFailAt EXCEPT ![u] = FailAtAfterVerify(u, c, p, now)]
    /\ UNCHANGED <<now, users, tokens, audit, nextId, calls>>

ChangePassword(u, old, new) ==
    /\ u \in DOMAIN credentials
    /\ LET c == credentials[u]
           r == change_password(c, old, new, now)
       IN  /\ credentials' = [credentials EXCEPT ![u] = r.cred]
           /\ last' = Call("change_password", Pre(c, old, now), r.exc, Ok(r.exc = ""))
           /\ streak' = [streak EXCEPT ![u] = StreakAfterVerify(u, c, old, now)]
           /\ lastFailAt' = [lastFailAt EXCEPT ![u] = FailAtAfterVerify(u, c, old, now)]
    /\ UNCHANGED <<now, users, tokens, audit, nextId, calls>>

ResetPassword(u, new) ==
    /\ u \in DOMAIN credentials
    /\ LET r == reset_password(credentials[u], new)
       IN  /\ credentials' = [credentials EXCEPT ![u] = r.cred]
           /\ last' = Call("reset_password", Pre(credentials[u], new, now), r.exc, Ok(r.exc = ""))
           /\ streak' = [streak EXCEPT ![u] = IF r.exc = "" THEN 0 ELSE @]
    /\ UNCHANGED <<now, users, tokens, audit, nextId, lastFailAt, calls>>

UnlockAccount(u) ==
    /\ u \in DOMAIN credentials
    /\ credentials' = [credentials EXCEPT ![u] = unlock_account(@)]
    /\ last' = Call("unlock_account", Pre(credentials[u], "", now), "", Ok(TRUE))
    /\ streak' = [streak EXCEPT ![u] = 0]
    /\ UNCHANGED <<now, users, tokens, audit, nextId, lastFailAt, calls>>

ForcePasswordChange(u) ==
    /\ u \in DOMAIN credentials
    /\ credentials' = [credentials EXCEPT ![u] = force_password_change(@)]
    /\ last' = Call("force_password_change", Pre(credentials[u], "", now), "", Ok(TRUE))
    /\ UNCHANGED <<now, users, tokens, audit, nextId, streak, lastFailAt, calls>>

IsAccountLocked(u) ==
    /\ u \in DOMAIN credentials
    /\ LET c == credentials[u]
           l == is_account_locked(c, now)
       IN  /\ credentials' = [credentials EXCEPT ![u] = l.cred]
           /\ last' = Call("is_account_locked", Pre(c, "", now), "", Ok(l.ret))
           /\ streak' = [streak EXCEPT ![u] = IF l.cred # c THEN 0 ELSE @]
    /\ UNCHANGED <<now, users, tokens, audit, nextId, lastFailAt, calls>>

TickCred(d) ==
    /\ now + d <= MaxTimeCred
    /\ now' = now + d
    /\ last' = Call("tick", NoPre, "", Ok(TRUE))
    /\ UNCHANGED <<users, credentials, tokens, audit, nextId, streak, lastFailAt, calls>>

(***************************************************************************)
(* Bounds of the service specification                                     *)
(***************************************************************************)
\* audit events ever appended
MaxAudit == 2

\* token records ever created: every issued token appends an audit event
MaxTokens == MaxAudit

\* clock steps taken in the service specification
MaxTicks == 2

\* step of the clock of the service specification: half a token lifetime
SvcTickStep == (ACCESS_TOKEN_EXPIRY_HOURS * 60) \div 2

\* last clock value of the service specification
MaxTimeSvc == MaxTicks * SvcTickStep

\* durations offered to extend_expiry
ExtendDeltas == {SvcTickStep}

\* range of expiry times extend_expiry is exercised in
MaxExpiry == MaxTimeSvc + SvcTickStep

\* emails offered to authenticate: a registered one and an unknown one
Emails == {"u1@corp.example", "ghost@corp.example"}

\* passwords offered to authenticate
LoginPasswords == {"secret1", "newpass9", ""}

IpAddresses == {"10.0.0.1"}

UserAgents == {"agent/1"}

\* reason offered to revoke and revoke_all_user_tokens (logout gives its own)
Reasons == {"Security revocation"}

\* Optional[str] user id = None
NoUserId == "<None>"

(***************************************************************************)
(* Token issuer (AuthenticationService._generate_jwt_token)                *)
(***************************************************************************)
EmailOf(u) == IF u = "u1" THEN "u1@corp.example" ELSE "u2@corp.example"

\* the claims of a user; name, role and employee id are fixed per user id
create_token_payload(u) == <<"claims", u, EmailOf(u)>>

JwtHeader == <<"alg", "HS256", "typ", "JWT">>

\* sha256(header.payload.secret_key)[:32]
Signature(header, payload) == <<"sha256/32", header, payload, "secret_key">>

\* the token string: header.payload.signature
generate_jwt_token(payload) == <<JwtHeader, payload, Signature(JwtHeader, payload)>>

\* a token string whose signature segment was altered
Tampered(tok) == <<tok[1], tok[2], <<"sha256/32", tok[1], tok[2], "other_key">> >>

EmptyToken == <<>>

\* token strings presented to validate_token, logout and verify_token
PresentedTokens ==
    {generate_jwt_token(create_token_payload(u)) : u \in Users}
        \cup {Tampered(generate_jwt_token(create_token_payload("u1"))), EmptyToken}

(***************************************************************************)
(* AuthenticationToken                                                     *)
(***************************************************************************)
\* hashlib.sha256(token).hexdigest(): injective on the presented strings
hash_token(tok) == <<"sha256", tok>>

calculate_expiry_AccessAsRefresh(token_type, t) ==
    IF token_type = "ACCESS" THEN t + REFRESH_TOKEN_EXPIRY_DAYS * 24 * 60
    ELSE IF token_type = "REFRESH" THEN t + REFRESH_TOKEN_EXPIRY_DAYS * 24 * 60
    ELSE t + ACCESS_TOKEN_EXPIRY_HOURS * 60

calculate_expiry(token_type, t) ==
    IF token_type = "ACCESS" THEN t + ACCESS_TOKEN_EXPIRY_HOURS * 60
    ELSE IF token_type = "REFRESH" THEN t + REFRESH_TOKEN_EXPIRY_DAYS * 24 * 60
    ELSE t + ACCESS_TOKEN_EXPIRY_HOURS * 60

NewToken(id, u, tok, token_type, ip, ua, t) ==
    [id |-> id,
     user_id |-> u,
     token_hash |-> hash_token(tok),
     token_type |-> token_type,
     created_at |-> t,
     expires_at |-> calculate_expiry(token_type, t),
     is_revoked |-> FALSE,
     revoked_at |-> NoTime,
     revoked_reason |-> NoReason,
     ip_address |-> ip,
     user_agent |-> ua]

is_valid(r, t) == IF r.is_revoked THEN FALSE ELSE t < r.expires_at

is_expired(r, t) == t >= r.expires_at

verify_token_IgnoreRevoked(r, tok, t) ==
    IF is_expired(r, t) THEN [exc |-> "", ret |-> FALSE]
    ELSE IF tok = EmptyToken THEN [exc |-> "ValidationException", ret |-> FALSE]
    ELSE [exc |-> "", ret |-> hash_token(tok) = r.token_hash]

verify_token(r, tok, t) ==
    IF r.is_revoked THEN [exc |-> "RevokedTokenException", ret |-> FALSE]
    ELSE IF is_expired(r, t) THEN [exc |-> "", ret |-> FALSE]
    ELSE IF tok = EmptyToken THEN [exc |-> "ValidationException", ret |-> FALSE]
    ELSE [exc |-> "", ret |-> hash_token(tok) = r.token_hash]

revoke_Overwrite(r, reason, t) ==
    [r EXCEPT !.is_revoked = TRUE, !.revoked_at = t, !.revoked_reason = reason]

revoke_NoTimestamp(r, reason, t) ==
    IF r.is_revoked THEN r
    ELSE [r EXCEPT !.is_revoked = TRUE, !.revoked_reason = reason]

revoke(r, reason, t) ==
    IF r.is_revoked THEN r
    ELSE [r EXCEPT !.is_revoked = TRUE, !.revoked_at = t, !.revoked_reason = reason]

extend_expiry_IgnoreRevoked(r, d) ==
    [exc |-> "", rec |-> [r EXCEPT !.expires_at = @ + d]]

extend_expiry(r, d) ==
    IF r.is_revoked THEN [exc |-> "ValidationException", rec |-> r]
    ELSE [exc |-> "", rec |-> [r EXCEPT !.expires_at = @ + d]]

(***************************************************************************)
(* AuthenticationTokenRepository: _storage is a dict, kept here as the     *)
(* sequence of its values in insertion order                               *)
(***************************************************************************)
TokenIds == {tokens[i].id : i \in 1..Len(tokens)}

\* position of the record with the given id
IndexOfId(id) == CHOOSE i \in 1..Len(tokens) : tokens[i].id = id

\* find_first_by_attribute('token_hash', h): position of the first match, 0 if none
find_by_token_hash(h) ==
    IF \E i \in 1..Len(tokens) : tokens[i].token_hash = h
    THEN CHOOSE i \in 1..Len(tokens) :
            /\ tokens[i].token_hash = h
            /\ \A j \in 1..(i - 1) : tokens[j].token_hash # h
    ELSE 0

find_valid_tokens_by_user_AnyUser(u, t) ==
    {i \in 1..Len(tokens) : is_valid(tokens[i], t)}

find_valid_tokens_by_user_IncludeExpired(u, t) ==
    {i \in 1..Len(tokens) : tokens[i].user_id = u /\ ~tokens[i].is_revoked}

find_valid_tokens_by_user(u, t) ==
    {i \in 1..Len(tokens) : tokens[i].user_id = u /\ is_valid(tokens[i], t)}

find_expired_tokens(t) ==
    {i \in 1..Len(tokens) : is_expired(tokens[i], t) /\ ~tokens[i].is_revoked}

\* the store after revoke_user_tokens and the count it returns
revoke_user_tokens(u, reason, t) ==
    LET active == find_valid_tokens_by_user(u, t) IN
    [store |-> [i \in 1..Len(tokens) |->
                   IF i \in active THEN revoke(tokens[i], reason, t) ELSE tokens[i]],
     count |-> Cardinality(active)]

cleanup_expired_tokens_IncludeRevoked(t) ==
    [store |-> SelectSeq(tokens, LAMBDA r : ~is_expired(r, t)),
     count |-> Cardinality({i \in 1..Len(tokens) : is_expired(tokens[i], t)})]

\* the store after cleanup_expired_tokens and the count it returns
cleanup_expired_tokens(t) ==
    LET expired == find_expired_tokens(t) IN
    [store |-> SelectSeq(tokens, LAMBDA r : ~(is_expired(r, t) /\ ~r.is_revoked)),
     count |-> Cardinality(expired)]

(***************************************************************************)
(* UserRepository and SecurityAuditLog                                     *)
(***************************************************************************)
\* find_by_email: the id of the stored user with that email, NoUserId if none
find_by_email(email) ==
    IF \E u \in DOMAIN users : EmailOf(u) = email
    THEN CHOOSE u \in DOMAIN users : EmailOf(u) = email
    ELSE NoUserId

NoData ==
    [keys |-> {}, failure_reason |-> "", token_id |-> 0,
     must_change_password |-> FALSE, reason |-> "", tokens_revoked |-> 0]

AuditLog(event_type, description, success, u, ip, ua, data) ==
    [event_type |-> event_type, event_description |-> description,
     success |-> success, user_id |-> u, ip_address |-> ip, user_agent |-> ua,
     additional_data |-> data]

create_login_log(u, success, ip, ua, failure_reason) ==
    IF success
    THEN AuditLog("LOGIN_SUCCESS", "User successfully logged in", TRUE, u, ip, ua, NoData)
    ELSE AuditLog("LOGIN_FAILURE", "User login failed", FALSE, u, ip, ua,
                  IF failure_reason # ""
                  THEN [NoData EXCEPT !.keys = {"failure_reason"},
                                      !.failure_reason = failure_reason]
                  ELSE NoData)

\* the event _log_authentication_event saves for a failed login
FailureEvent(u, ip, ua, failure_reason) ==
    create_login_log(u, FALSE, ip, ua, failure_reason)

\* the event _log_authentication_event saves for a successful login
SuccessEvent(u, ip, ua, token_id, must_change) ==
    LET e == create_login_log(u, TRUE, ip, ua, "") IN
    [e EXCEPT !.additional_data =
        [@ EXCEPT !.keys = {"token_id", "must_change_password"},
                  !.token_id = token_id,
                  !.must_change_password = must_change]]

(***************************************************************************)
(* AuthenticationService                                                   *)
(***************************************************************************)
InvalidCredentialsMsg == "Invalid email or password"

NotActivatedMsg == "Account is not activated. Please verify your email."

LockedMsg == "Account is temporarily locked due to too many failed login attempts"

InternalErrorMsg == "Authentication failed due to internal error"

LogoutInternalErrorMsg == "Logout failed due to internal error"

\* the repository calls of the service that a failing store makes raise
FindUserByEmail == "user_repository.find_by_email"

FindCredentialsByUserId == "credentials_repository.find_by_user_id"

SaveToken == "token_repository.save"

SaveUser == "user_repository.save"

SaveAuditLog == "audit_log_repository.save"

\* the error a failing store raises: no DomainException
StoreError == "StoreError"

Failed(msg) == [Ok(FALSE) EXCEPT !.msg = msg]

\* what the caller of authenticate_user gets for an unexpected error, and the
\* failure reason written to the audit event (except Exception)
internal_error_Reraise ==
    [exc |-> StoreError, msg |-> "", reason |-> "Internal error"]

internal_error ==
    [exc |-> "AuthenticationException", msg |-> InternalErrorMsg,
     reason |-> "Internal error"]

Passed(u) == [u |-> u, exc |-> "", msg |-> "", reason |-> ""]

Raised(u, exc, msg, reason) == [u |-> u, exc |-> exc, msg |-> msg, reason |-> reason]

find_user_and_credentials_CredentialsBeforeActive(f, email) ==
    IF FindUserByEmail \in f
    THEN Raised(NoUserId, internal_error.exc, internal_error.msg, internal_error.reason)
    ELSE LET u == find_by_email(email) IN
         IF u = NoUserId
         THEN Raised(NoUserId, "InvalidCredentialsException", InvalidCredentialsMsg,
                     "User not found")
         ELSE IF FindCredentialsByUserId \in f
         THEN Raised(u, internal_error.exc, internal_error.msg, internal_error.reason)
         ELSE IF u \notin DOMAIN credentials
         THEN Raised(u, "InvalidCredentialsException", InvalidCredentialsMsg,
                     "Credentials not found")
         ELSE IF ~users[u].is_active
         THEN Raised(u, "AccountNotActivatedException", NotActivatedMsg, NotActivatedMsg)
         ELSE Passed(u)

find_user_and_credentials_SkipActiveCheck(f, email) ==
    IF FindUserByEmail \in f
    THEN Raised(NoUserId, internal_error.exc, internal_error.msg, internal_error.reason)
    ELSE LET u == find_by_email(email) IN
         IF u = NoUserId
         THEN Raised(NoUserId, "InvalidCredentialsException", InvalidCredentialsMsg,
                     "User not found")
         ELSE IF FindCredentialsByUserId \in f
         THEN Raised(u, internal_error.exc, internal_error.msg, internal_error.reason)
         ELSE IF u \notin DOMAIN credentials
         THEN Raised(u, "InvalidCredentialsException", InvalidCredentialsMsg,
                     "Credentials not found")
         ELSE Passed(u)

find_user_and_credentials_RevealUnknown(f, email) ==
    IF FindUserByEmail \in f
    THEN Raised(NoUserId, internal_error.exc, internal_error.msg, internal_error.reason)
    ELSE LET u == find_by_email(email) IN
         IF u = NoUserId
         THEN Raised(NoUserId, "EntityNotFoundException", "User not found",
                     "User not found")
         ELSE IF ~users[u].is_active
         THEN Raised(u, "AccountNotActivatedException", NotActivatedMsg, NotActivatedMsg)
         ELSE IF FindCredentialsByUserId \in f
         THEN Raised(u, internal_error.exc, internal_error.msg, internal_error.reason)
         ELSE IF u \notin DOMAIN credentials
         THEN Raised(u, "InvalidCredentialsException", InvalidCredentialsMsg,
                     "Credentials not found")
         ELSE Passed(u)

\* steps 1 to 3 of authenticate_user under the failing store calls f: the user
\* found (NoUserId when none) and the exception, message and audited failure
\* reason of the first check that fails (exc = "" when all pass)
find_user_and_credentials(f, email) ==
    IF FindUserByEmail \in f
    THEN Raised(NoUserId, internal_error.exc, internal_error.msg, internal_error.reason)
    ELSE LET u == find_by_email(email) IN
         IF u = NoUserId
         THEN Raised(NoUserId, "InvalidCredentialsException", InvalidCredentialsMsg,
                     "User not found")
         ELSE IF ~users[u].is_active
         \* the audited reason is str(e), the message of the exception
         THEN Raised(u, "AccountNotActivatedException", NotActivatedMsg, NotActivatedMsg)
         ELSE IF FindCredentialsByUserId \in f
         THEN Raised(u, internal_error.exc, internal_error.msg, internal_error.reason)
         ELSE IF u \notin DOMAIN credentials
         THEN Raised(u, "InvalidCredentialsException", InvalidCredentialsMsg,
                     "Credentials not found")
         ELSE Passed(u)

log_authentication_event_KeepLatest(f, event) ==
    IF SaveAuditLog \in f THEN audit
    ELSE IF audit = <<>> THEN <<event>>
    ELSE [audit EXCEPT ![Len(audit)] = event]

\* _log_authentication_event: a raising audit store is logged and swallowed
log_authentication_event(f, event) ==
    IF SaveAuditLog \in f THEN audit ELSE Append(audit, event)

\* the except clauses of authenticate_user: audit, then raise
AuthFail(f, u, exc, msg, failure_reason, ip, ua) ==
    /\ audit' = log_authentication_event(f, FailureEvent(u, ip, ua, failure_reason))
    /\ last' = Call("authenticate", NoPre, exc, Failed(msg))

\* steps 5 to 9 of authenticate_user
AuthSuccess(f, u, ip, ua, must_change) ==
    LET access_token == generate_jwt_token(create_token_payload(u))
        token_record == NewToken(nextId + 1, u, access_token, "ACCESS", ip, ua, now)
    IN  /\ nextId < MaxTokens
        /\ IF SaveToken \in f
           THEN /\ AuthFail(f, u, internal_error.exc, internal_error.msg,
                            internal_error.reason, ip, ua)
                /\ UNCHANGED <<users, tokens, nextId>>
           ELSE /\ tokens' = Append(tokens, token_record)
                /\ nextId' = nextId + 1
                \* update_last_login writes the stored object before save is called
                /\ users' = [users EXCEPT ![u].last_login_at = now]
                /\ IF SaveUser \in f
                   THEN AuthFail(f, u, internal_error.exc, internal_error.msg,
                                 internal_error.reason, ip, ua)
                   ELSE /\ audit' = log_authentication_event(f,
                                      SuccessEvent(u, ip, ua, token_record.id, must_change))
                        /\ last' = Call("authenticate", NoPre, "",
                                     [Ok(TRUE) EXCEPT !.msg = "Authentication successful",
                                                      !.user_id = u,
                                                      !.token = access_token,
                                                      !.token_id = token_record.id,
                                                      !.at = users'[u].last_login_at,
                                                      !.flag = must_change])

\* authenticate_user while the store calls in f raise
AuthenticateUnder(f, email, password, ip, ua) ==
    /\ Len(audit) < MaxAudit
    /\ UNCHANGED <<now, calls>>
    /\ LET s == find_user_and_credentials(f, email) IN
       IF s.exc # ""
       THEN /\ AuthFail(f, s.u, s.exc, s.msg, s.reason, ip, ua)
            /\ UNCHANGED <<users, tokens, nextId, credentials, streak, lastFailAt>>
       ELSE LET u == s.u
                c == credentials[u]
                v == verify_password(c, password, now)
            IN  /\ credentials' = [credentials EXCEPT ![u] = v.cred]
                /\ streak' = [streak EXCEPT ![u] = StreakAfterVerify(u, c, password, now)]
                /\ lastFailAt' = [lastFailAt EXCEPT
                                    ![u] = FailAtAfterVerify(u, c, password, now)]
                /\ IF v.exc # ""
                   THEN /\ AuthFail(f, u, v.exc, LockedMsg, LockedMsg, ip, ua)
                        /\ UNCHANGED <<users, tokens, nextId>>
                   ELSE IF ~v.ret
                   THEN /\ AuthFail(f, u, "InvalidCredentialsException",
                                    InvalidCredentialsMsg, "Invalid password", ip, ua)
                        /\ UNCHANGED <<users, tokens, nextId>>
                   ELSE AuthSuccess(f, u, ip, ua, v.cred.must_change_password)

\* InMemoryRepository.save of the credential store
SaveCredentials == "credentials_repository.save"

\* the save calls authenticate_user makes while the store calls in f raise:
\* the audit event on every path, the token record and the user on success.
\* The credential record is read with find_by_user_id and changed in place by
\* verify_password; no path saves it
authenticate_saves(f, email, password) ==
    LET s == find_user_and_credentials(f, email) IN
    IF s.exc # "" THEN {SaveAuditLog}
    ELSE LET v == verify_password(credentials[s.u], password, now) IN
         IF v.exc # "" \/ ~v.ret THEN {SaveAuditLog}
         ELSE IF SaveToken \in f THEN {SaveToken, SaveAuditLog}
         ELSE {SaveToken, SaveUser, SaveAuditLog}

\* authenticate_user with every store working
Authenticate(email, password, ip, ua) == AuthenticateUnder({}, email, password, ip, ua)

validate_token_NoCatchAll(tok) ==
    IF tok = EmptyToken
    THEN [exc |-> "ValidationException", ret |-> Failed("Token is required"), idx |-> 0]
    ELSE LET i == find_by_token_hash(hash_token(tok)) IN
         IF i = 0
         THEN [exc |-> "ValidationException", ret |-> Failed("Invalid token"), idx |-> 0]
         ELSE LET r == tokens[i]
                  v == verify_token(r, tok, now)
              IN  IF v.exc # ""
                  THEN [exc |-> v.exc, ret |-> Failed("Token has been revoked"), idx |-> i]
                  ELSE IF ~v.ret
                  THEN [exc |-> "ValidationException",
                        ret |-> Failed("Token validation failed"), idx |-> i]
                  ELSE IF r.user_id \notin DOMAIN users
                  THEN [exc |-> "ValidationException",
                        ret |-> Failed("User not found for token"), idx |-> i]
                  ELSE IF ~users[r.user_id].is_active
                  THEN [exc |-> "ValidationException",
                        ret |-> Failed("User account is not active"), idx |-> i]
                  ELSE [exc |-> "",
                        ret |-> [Ok(TRUE) EXCEPT !.user_id = r.user_id,
                                                 !.token_id = r.id,
                                                 !.at = r.expires_at],
                        idx |-> i]

\* validate_token past the lookup, on the record found at position i
validate_record(i, tok) ==
    LET r == tokens[i]
        v == verify_token(r, tok, now)
    IN  IF v.exc # ""
        \* RevokedTokenException is no ValidationException: except Exception
        THEN [exc |-> "ValidationException",
              ret |-> Failed("Token validation failed"), idx |-> i]
        ELSE IF ~v.ret
        THEN [exc |-> "ValidationException",
              ret |-> Failed("Token validation failed"), idx |-> i]
        ELSE IF r.user_id \notin DOMAIN users
        THEN [exc |-> "ValidationException",
              ret |-> Failed("User not found for token"), idx |-> i]
        ELSE IF ~users[r.user_id].is_active
        THEN [exc |-> "ValidationException",
              ret |-> Failed("User account is not active"), idx |-> i]
        ELSE [exc |-> "",
              ret |-> [Ok(TRUE) EXCEPT !.user_id = r.user_id,
                                       !.token_id = r.id,
                                       !.at = r.expires_at],
              idx |-> i]

\* validate_token reads the stores only: its result, the exception it raises
\* ("" when none) and the position of the record it looked up (0 when none)
validate_token(tok) ==
    IF tok = EmptyToken
    \* _hash_token raises ValidationException, re-raised as it is
    THEN [exc |-> "ValidationException", ret |-> Failed("Token is required"), idx |-> 0]
    ELSE LET i == find_by_token_hash(hash_token(tok)) IN
         IF i = 0
         THEN [exc |-> "ValidationException", ret |-> Failed("Invalid token"), idx |-> 0]
         ELSE validate_record(i, tok)

\* what a token call found: the state of the record it looked at
TokenState(r, t) ==
    IF r.is_revoked THEN "revoked" ELSE IF is_expired(r, t) THEN "expired" ELSE "valid"

TokenPre(i, arg) ==
    IF i = 0 THEN [state |-> "absent", k |-> 0, arg |-> arg]
    ELSE [state |-> TokenState(tokens[i], now), k |-> tokens[i].id, arg |-> arg]

ValidateToken_RevokeOnFailure(tok) ==
    /\ LET v == validate_token(tok) IN
       /\ last' = Call("validate_token", TokenPre(v.idx, ""), v.exc, v.ret)
       /\ tokens' = IF v.exc # "" /\ v.idx # 0
                    THEN [tokens EXCEPT ![v.idx] = revoke(@, "Validation failed", now)]
                    ELSE tokens
    /\ UNCHANGED <<now, users, credentials, audit, nextId, streak, lastFailAt, calls>>

\* validate_token: reads the token store and the user store, writes nothing
ValidateToken(tok) ==
    /\ LET v == validate_token(tok) IN
       last' = Call("validate_token", TokenPre(v.idx, ""), v.exc, v.ret)
    /\ UNCHANGED <<now, users, credentials, tokens, audit, nextId, streak, lastFailAt, calls>>

logout_revoke_AllMatching(tok) ==
    [exc |-> "",
     store |-> [i \in 1..Len(tokens) |->
                  IF tokens[i].token_hash = hash_token(tok)
                  THEN revoke(tokens[i], "User logout", now) ELSE tokens[i]]]

logout_revoke_RequireRecord(tok) ==
    LET i == find_by_token_hash(hash_token(tok)) IN
    IF i # 0
    THEN [exc |-> "", store |-> [tokens EXCEPT ![i] = revoke(@, "User logout", now)]]
    ELSE [exc |-> "EntityNotFoundException", store |-> tokens]

\* step 2 of logout_user: look the record up again and revoke it when one is
\* found; the store it leaves and the exception it raises ("" when none)
logout_revoke(tok) ==
    LET i == find_by_token_hash(hash_token(tok)) IN
    IF i # 0
    THEN [exc |-> "", store |-> [tokens EXCEPT ![i] = revoke(@, "User logout", now)]]
    ELSE [exc |-> "", store |-> tokens]

\* the audit event of step 3 of logout_user
LogoutEvent(u, ip, ua) ==
    AuditLog("TOKEN_REVOKED", "User logged out", TRUE, u, ip, ua,
             [NoData EXCEPT !.keys = {"reason"}, !.reason = "User logout"])

\* logout_user while the store calls in f raise
LogoutUserUnder(f, tok, ip, ua) ==
    LET v == validate_token(tok) IN
    IF v.exc # ""
    THEN /\ last' = Call("logout", TokenPre(v.idx, ""), v.exc, v.ret)
         /\ UNCHANGED <<now, users, credentials, tokens, audit, nextId, streak, lastFailAt, calls>>
    ELSE LET i == find_by_token_hash(hash_token(tok))
             r == logout_revoke(tok)
         IN
         /\ Len(audit) < MaxAudit
         /\ tokens' = r.store
         /\ IF r.exc # "" \/ SaveAuditLog \in f
            \* the record is revoked already; except Exception
            THEN /\ audit' = audit
                 /\ last' = Call("logout", TokenPre(i, ""), "ValidationException",
                                 Failed(LogoutInternalErrorMsg))
            ELSE /\ audit' = Append(audit, LogoutEvent(v.ret.user_id, ip, ua))
                 /\ last' = Call("logout", TokenPre(i, ""), "",
                                 [Ok(TRUE) EXCEPT !.msg = "Logout successful"])
         /\ UNCHANGED <<now, users, credentials, nextId, streak, lastFailAt, calls>>

\* logout_user with every store working
LogoutUser(tok, ip, ua) == LogoutUserUnder({}, tok, ip, ua)

\* revoke_all_user_tokens while the store calls in f raise
RevokeAllUserTokensUnder(f, u, reason) ==
    /\ Len(audit) < MaxAudit
    /\ LET r == revoke_user_tokens(u, reason, now) IN
       /\ tokens' = r.store
       /\ IF SaveAuditLog \in f
          \* no try block: the error of the store reaches the caller
          THEN /\ audit' = audit
               /\ last' = Call("revoke_all_user_tokens", [NoPre EXCEPT !.arg = reason],
                               StoreError, Failed(""))
          ELSE /\ audit' = Append(audit,
                             AuditLog("TOKEN_REVOKED", "All user tokens revoked", TRUE,
                                      u, NoUserId, NoUserId,
                                      [NoData EXCEPT !.keys = {"reason", "tokens_revoked"},
                                                     !.reason = reason,
                                                     !.tokens_revoked = r.count]))
               /\ last' = Call("revoke_all_user_tokens", [NoPre EXCEPT !.arg = reason],
                               "", [Ok(TRUE) EXCEPT !.n = r.count])
    /\ UNCHANGED <<now, users, credentials, nextId, streak, lastFailAt, calls>>

\* revoke_all_user_tokens with every store working
RevokeAllUserTokens(u, reason) == RevokeAllUserTokensUnder({}, u, reason)

CleanupExpiredTokens ==
    /\ LET r == cleanup_expired_tokens(now) IN
       /\ tokens' = r.store
       /\ last' = Call("cleanup_expired_tokens", NoPre, "", [Ok(TRUE) EXCEPT !.n = r.count])
    /\ UNCHANGED <<now, users, credentials, audit, nextId, streak, lastFailAt, calls>>

(***************************************************************************)
(* Operations on one stored token record, and on the stored users          *)
(***************************************************************************)
Revoke(id, reason) ==
    /\ id \in TokenIds
    /\ LET i == IndexOfId(id) IN
       /\ tokens' = [tokens EXCEPT ![i] = revoke(@, reason, now)]
       /\ last' = Call("revoke", TokenPre(i, reason), "", Ok(TRUE))
    /\ UNCHANGED <<now, users, credentials, audit, nextId, streak, lastFailAt, calls>>

ExtendExpiry(id, d) ==
    /\ id \in TokenIds
    /\ LET i == IndexOfId(id)
           e == extend_expiry(tokens[i], d)
       IN  /\ e.rec.expires_at \in 0..MaxExpiry
           /\ tokens' = [tokens EXCEPT ![i] = e.rec]
           /\ last' = Call("extend_expiry", TokenPre(i, ""), e.exc, Ok(e.exc = ""))
    /\ UNCHANGED <<now, users, credentials, audit, nextId, streak, lastFailAt, calls>>

VerifyToken(id, tok) ==
    /\ id \in TokenIds
    /\ LET i == IndexOfId(id)
           v == verify_token(tokens[i], tok, now)
       IN  last' = Call("verify_token", TokenPre(i, ""), v.exc, Ok(v.ret))
    /\ UNCHANGED <<now, users, credentials, tokens, audit, nextId, streak, lastFailAt, calls>>

Activate(u) ==
    /\ u \in DOMAIN users
    /\ users' = [users EXCEPT ![u].is_active = TRUE]
    /\ last' = Call("activate", NoPre, "", Ok(TRUE))
    /\ UNCHANGED <<now, credentials, tokens, audit, nextId, streak, lastFailAt, calls>>

Deactivate(u) ==
    /\ u \in DOMAIN users
    /\ users' = [users EXCEPT ![u].is_active = FALSE]
    /\ last' = Call("deactivate", NoPre, "", Ok(TRUE))
    /\ UNCHANGED <<now, credentials, tokens, audit, nextId, streak, lastFailAt, calls>>

\* UserRepository.delete_by_id
DeleteUser(u) ==
    /\ u \in DOMAIN users
    /\ users' = [x \in DOMAIN users \ {u} |-> users[x]]
    /\ last' = Call("delete_user", NoPre, "", Ok(TRUE))
    /\ UNCHANGED <<now, credentials, tokens, audit, nextId, streak, lastFailAt, calls>>

TickSvc ==
    /\ now + SvcTickStep <= MaxTimeSvc
    /\ now' = now + SvcTickStep
    /\ last' = Call("tick", NoPre, "", Ok(TRUE))
    /\ UNCHANGED <<users, credentials, tokens, audit, nextId, streak, lastFailAt, calls>>

(***************************************************************************)
(* Direct operations on the token store                                    *)
(***************************************************************************)
\* AuthenticationToken(user_id, token, ACCESS, ip, ua) saved to the store
CreateToken(u, ip, ua) ==
    /\ nextId < MaxTokens
    /\ tokens' = Append(tokens,
                    NewToken(nextId + 1, u, generate_jwt_token(create_token_payload(u)),
                             "ACCESS", ip, ua, now))
    /\ nextId' = nextId + 1
    /\ last' = Call("create_token", NoPre, "", [Ok(TRUE) EXCEPT !.token_id = nextId + 1])
    /\ UNCHANGED <<now, users, credentials, audit, streak, lastFailAt, calls>>

\* AuthenticationTokenRepository.delete_by_id
DeleteToken(id) ==
    /\ id \in TokenIds
    /\ tokens' = SelectSeq(tokens, LAMBDA r : r.id # id)
    /\ last' = Call("delete_token", TokenPre(IndexOfId(id), ""), "", Ok(TRUE))
    /\ UNCHANGED <<now, users, credentials, audit, nextId, streak, lastFailAt, calls>>

(***************************************************************************)
(* Calls in flight: logout_user, revoke_user_tokens, cleanup_expired_tokens *)
(* and validate_token taken one step at a time, so that the calls of other *)
(* threads come between the steps                                          *)
(***************************************************************************)
Threads == {"t1", "t2"}

\* the locals of a call: the token string, user id, reason, ip address and
\* user agent it was given, the list of record ids it iterates over, its
\* counter, for a scan of the store the dict size it started with and the
\* number of entries passed, and for a failed verify_password the counter value
\* that `failed_login_attempts += 1` loaded; `changed` is history: the records the call found
\* unrevoked and left revoked
Idle ==
    [op |-> "", pc |-> "idle", tok |-> EmptyToken, u |-> NoUserId, reason |-> "",
     ip |-> "", ua |-> "", snap |-> <<>>, count |-> 0, changed |-> 0,
     size |-> 0, pos |-> 0, loaded |-> 0]

\* the ids of the records that satisfy Keep, in the order of the store
IdsWhere(Keep(_)) ==
    LET sel == SelectSeq(tokens, Keep) IN [k \in 1..Len(sel) |-> sel[k].id]

\* no scan of the token store is under way
NoScan == \A p \in Threads : calls[p].pc # "scan"

\* logout_user, step 1: validate_token; its error is re-raised as it is
LogoutValidate(p, tok, ip, ua) ==
    /\ calls[p].pc = "idle"
    /\ LET v == validate_token(tok) IN
       IF v.exc # ""
       THEN /\ last' = Call("logout", TokenPre(v.idx, ""), v.exc, v.ret)
            /\ calls' = calls
       ELSE /\ last' = last
            /\ calls' = [calls EXCEPT ![p] =
                            [Idle EXCEPT !.op = "logout", !.pc = "validated",
                                         !.tok = tok, !.u = v.ret.user_id,
                                         !.ip = ip, !.ua = ua]]
    /\ UNCHANGED <<now, users, credentials, tokens, audit, nextId, streak, lastFailAt>>

\* logout_user, step 2: find the record again and revoke it
LogoutRevoke(p) ==
    /\ calls[p].op = "logout" /\ calls[p].pc = "validated"
    /\ LET r == logout_revoke(calls[p].tok) IN
       /\ tokens' = r.store
       /\ IF r.exc # ""
          THEN /\ last' = Call("logout", TokenPre(0, ""), "ValidationException",
                               Failed(LogoutInternalErrorMsg))
               /\ calls' = [calls EXCEPT ![p] = Idle]
          ELSE /\ last' = last
               \* token_record: the record found, if any
               /\ calls' = [calls EXCEPT
                               ![p].pc = "revoked",
                               ![p].snap =
                                   LET i == find_by_token_hash(hash_token(calls[p].tok))
                                   IN  IF i = 0 THEN <<>> ELSE <<tokens[i].id>>]
    /\ UNCHANGED <<now, users, credentials, audit, nextId, streak, lastFailAt>>

\* logout_user, step 3: save the audit event and return
LogoutAudit(p) ==
    /\ calls[p].op = "logout" /\ calls[p].pc = "revoked"
    /\ Len(audit) < MaxAudit
    /\ audit' = Append(audit, LogoutEvent(calls[p].u, calls[p].ip, calls[p].ua))
    /\ last' = Call("logout",
                    IF calls[p].snap = <<>> THEN TokenPre(0, "")
                    ELSE [state |-> "found", k |-> Head(calls[p].snap), arg |-> ""],
                    "", [Ok(TRUE) EXCEPT !.msg = "Logout successful"])
    /\ calls' = [calls EXCEPT ![p] = Idle]
    /\ UNCHANGED <<now, users, credentials, tokens, nextId, streak, lastFailAt>>

\* revoke_user_tokens: active_tokens = find_valid_tokens_by_user(user_id)
RevokeUserTokensBegin(p, u, reason) ==
    /\ calls[p].pc = "idle"
    /\ calls' = [calls EXCEPT ![p] =
                    [Idle EXCEPT !.op = "revoke_user_tokens", !.pc = "loop",
                                 !.u = u, !.reason = reason,
                                 !.snap = IdsWhere(LAMBDA r : r.user_id = u /\ is_valid(r, now))]]
    /\ UNCHANGED <<now, users, credentials, tokens, audit, nextId, last, streak, lastFailAt>>

\* revoke_user_tokens, one turn of the loop: token.revoke(reason), save,
\* count += 1 (the threads that run it delete no record)
RevokeUserTokensNext(p) ==
    /\ calls[p].op = "revoke_user_tokens" /\ calls[p].pc = "loop"
    /\ calls[p].snap # <<>>
    /\ Head(calls[p].snap) \in TokenIds
    /\ LET i == IndexOfId(Head(calls[p].snap)) IN
       /\ tokens' = [tokens EXCEPT ![i] = revoke(@, calls[p].reason, now)]
       /\ calls' = [calls EXCEPT ![p].snap = Tail(@),
                                 ![p].count = @ + 1,
                                 ![p].changed = IF tokens[i].is_revoked THEN @ ELSE @ + 1]
    /\ UNCHANGED <<now, users, credentials, audit, nextId, last, streak, lastFailAt>>

\* revoke_user_tokens: return count
RevokeUserTokensReturn(p) ==
    /\ calls[p].op = "revoke_user_tokens" /\ calls[p].pc = "loop"
    /\ calls[p].snap = <<>>
    /\ calls' = [calls EXCEPT ![p].pc = "done"]
    /\ last' = Call("revoke_user_tokens", [NoPre EXCEPT !.arg = calls[p].reason], "",
                    [Ok(TRUE) EXCEPT !.n = calls[p].count])
    /\ UNCHANGED <<now, users, credentials, tokens, audit, nextId, streak, lastFailAt>>

\* cleanup_expired_tokens: expired = find_expired_tokens()
CleanupBegin(p) ==
    /\ calls[p].pc = "idle"
    /\ calls' = [calls EXCEPT ![p] =
                    [Idle EXCEPT !.op = "cleanup_expired_tokens", !.pc = "loop",
                                 !.snap = IdsWhere(LAMBDA r : is_expired(r, now) /\ ~r.is_revoked)]]
    /\ UNCHANGED <<now, users, credentials, tokens, audit, nextId, last, streak, lastFailAt>>

\* cleanup_expired_tokens, one turn of the loop: delete_by_id(token.id)
CleanupDelete(p) ==
    /\ calls[p].op = "cleanup_expired_tokens" /\ calls[p].pc = "loop"
    /\ calls[p].snap # <<>>
    /\ LET id == Head(calls[p].snap) IN
       /\ tokens' = SelectSeq(tokens, LAMBDA r : r.id # id)
       /\ calls' = [calls EXCEPT ![p].snap = Tail(@),
                                 ![p].count = IF id \in TokenIds THEN @ + 1 ELSE @]
    /\ UNCHANGED <<now, users, credentials, audit, nextId, last, streak, lastFailAt>>

\* cleanup_expired_tokens: return count
CleanupReturn(p) ==
    /\ calls[p].op = "cleanup_expired_tokens" /\ calls[p].pc = "loop"
    /\ calls[p].snap = <<>>
    /\ calls' = [calls EXCEPT ![p] = Idle]
    /\ last' = Call("cleanup_expired_tokens", NoPre, "", [Ok(TRUE) EXCEPT !.n = calls[p].count])
    /\ UNCHANGED <<now, users, credentials, tokens, audit, nextId, streak, lastFailAt>>

\* validate_token up to the start of find_first_by_attribute: the iterator
\* over _storage.values() remembers the size of the dict
ValidateBegin(p, tok) ==
    /\ calls[p].pc = "idle"
    /\ IF tok = EmptyToken
       THEN /\ last' = Call("validate_token", TokenPre(0, ""), "ValidationException",
                            Failed("Token is required"))
            /\ calls' = calls
       ELSE /\ last' = last
            /\ calls' = [calls EXCEPT ![p] =
                            [Idle EXCEPT !.op = "validate_token", !.pc = "scan",
                                         !.tok = tok, !.size = Len(tokens)]]
    /\ UNCHANGED <<now, users, credentials, tokens, audit, nextId, streak, lastFailAt>>

\* the result of the next step of the scan: the dict iterator raises
\* RuntimeError when the size of the dict changed under it (except Exception
\* of validate_token), the scan ends without a match, it reaches the record
\* with the hash and validate_token finishes on it, or it moves on ("scan")
validate_scan_step(c) ==
    IF Len(tokens) # c.size
    THEN [pc |-> "done", exc |-> "ValidationException",
          ret |-> Failed("Token validation failed"), idx |-> 0]
    ELSE IF c.pos = c.size
    THEN [pc |-> "done", exc |-> "ValidationException",
          ret |-> Failed("Invalid token"), idx |-> 0]
    ELSE IF tokens[c.pos + 1].token_hash = hash_token(c.tok)
    THEN LET v == validate_record(c.pos + 1, c.tok) IN
         [pc |-> "done", exc |-> v.exc, ret |-> v.ret, idx |-> v.idx]
    ELSE [pc |-> "scan", exc |-> "", ret |-> Ok(TRUE), idx |-> 0]

\* validate_token: one step of the scan of the token store
ValidateNext(p) ==
    /\ calls[p].op = "validate_token" /\ calls[p].pc = "scan"
    /\ LET s == validate_scan_step(calls[p]) IN
       IF s.pc = "done"
       THEN /\ last' = Call("validate_token", TokenPre(s.idx, ""), s.exc, s.ret)
            /\ calls' = [calls EXCEPT ![p] = Idle]
       ELSE /\ last' = last
            /\ calls' = [calls EXCEPT ![p].pos = @ + 1]
    /\ UNCHANGED <<now, users, credentials, tokens, audit, nextId, streak, lastFailAt>>

\* verify_password up to the call of _increment_failed_attempts: the lock
\* check (with its reset of an elapsed lock), the empty password, checkpw and
\* the reset after a match; after a mismatch the call is about to increment
VerifyBegin(p, u, pw) ==
    /\ calls[p].pc = "idle"
    /\ u \in DOMAIN credentials
    /\ LET c == credentials[u]
           l == is_account_locked(c, now)
       IN  IF ~l.ret /\ WrongNonEmpty(c, pw)
           THEN /\ credentials' = [credentials EXCEPT ![u] = l.cred]
                /\ streak' = [streak EXCEPT ![u] = IF l.cred # c THEN 0 ELSE @]
                /\ calls' = [calls EXCEPT ![p] =
                                [Idle EXCEPT !.op = "verify_password", !.pc = "failed", !.u = u]]
                /\ UNCHANGED <<last, lastFailAt>>
           ELSE /\ credentials' = [credentials EXCEPT ![u] = verify_password(c, pw, now).cred]
                /\ last' = Call("verify_password", Pre(c, pw, now),
                                verify_password(c, pw, now).exc, Ok(verify_password(c, pw, now).ret))
                /\ streak' = [streak EXCEPT ![u] = StreakAfterVerify(u, c, pw, now)]
                /\ UNCHANGED <<lastFailAt, calls>>
    /\ UNCHANGED <<now, users, tokens, audit, nextId>>

\* self.failed_login_attempts += 1, first half: the attribute is loaded
VerifyLoad(p) ==
    /\ calls[p].op = "verify_password" /\ calls[p].pc = "failed"
    /\ calls' = [calls EXCEPT ![p].pc = "loaded",
                              ![p].loaded = credentials[calls[p].u].failed_login_attempts]
    /\ UNCHANGED <<now, users, credentials, tokens, audit, nextId, last, streak, lastFailAt>>

store_failed_attempts_Reload(c, k, t) == increment_failed_attempts(c, t)

\* the record after the second half of the increment of a call that loaded k:
\* k + 1 is stored, then the lock is set if the counter reached the limit
store_failed_attempts(c, k, t) ==
    [c EXCEPT !.failed_login_attempts = k + 1,
              !.account_locked_until =
                  IF k + 1 >= MAX_FAILED_ATTEMPTS
                  THEN t + LOCKOUT_DURATION_MINUTES ELSE @]

\* self.failed_login_attempts += 1, second half, the rest of
\* _increment_failed_attempts, and return False
VerifyStore(p) ==
    /\ calls[p].op = "verify_password" /\ calls[p].pc = "loaded"
    /\ LET u == calls[p].u IN
       /\ credentials' = [credentials EXCEPT ![u] =
                              store_failed_attempts(@, calls[p].loaded, now)]
       /\ last' = Call("verify_password",
                       [state |-> LockState(credentials[u], now), k |-> calls[p].loaded,
                        arg |-> "wrong"], "", Ok(FALSE))
       /\ streak' = [streak EXCEPT ![u] = @ + 1]
       /\ lastFailAt' = [lastFailAt EXCEPT ![u] = now]
    /\ calls' = [calls EXCEPT ![p] = Idle]
    /\ UNCHANGED <<now, users, tokens, audit, nextId>>

(***************************************************************************)
(* Initial state: every user registered, activated, with credentials       *)
(***************************************************************************)
NewUser == [is_active |-> TRUE, last_login_at |-> NoTime]

Init ==
    /\ now = 0
    /\ users = [u \in Users |-> NewUser]
    /\ credentials = [u \in Users |-> NewCredentials(InitialPassword, FALSE)]
    /\ tokens = <<>>
    /\ audit = <<>>
    /\ nextId = 0
    /\ last = Call("init", NoPre, "", Ok(TRUE))
    /\ streak = [u \in Users |-> 0]
    /\ lastFailAt = [u \in Users |-> NoTime]
    /\ calls = [p \in Threads |-> Idle]

NextCred ==
    \/ \E u \in CredUsers, p \in Passwords : VerifyPassword(u, p)
    \/ \E u \in CredUsers, old \in Passwords, new \in Passwords : ChangePassword(u, old, new)
    \/ \E u \in CredUsers, new \in Passwords : ResetPassword(u, new)
    \/ \E u \in CredUsers : UnlockAccount(u)
    \/ \E u \in CredUsers : ForcePasswordChange(u)
    \/ \E u \in CredUsers : IsAccountLocked(u)
    \/ \E d \in CredTickSteps : TickCred(d)

SpecCred == Init /\ [][NextCred]_vars

Next ==
    \/ \E e \in Emails, p \in LoginPasswords, ip \in IpAddresses, ua \in UserAgents :
          Authenticate(e, p, ip, ua)
    \/ \E tok \in PresentedTokens : ValidateToken(tok)
    \/ \E tok \in PresentedTokens, ip \in IpAddresses, ua \in UserAgents :
          LogoutUser(tok, ip, ua)
    \/ \E u \in CredUsers, reason \in Reasons : RevokeAllUserTokens(u, reason)
    \/ CleanupExpiredTokens
    \/ \E id \in 1..MaxTokens, reason \in Reasons : Revoke(id, reason)
    \/ \E id \in 1..MaxTokens, d \in ExtendDeltas : ExtendExpiry(id, d)
    \/ \E id \in 1..MaxTokens, tok \in PresentedTokens : VerifyToken(id, tok)
    \/ \E u \in CredUsers : Activate(u)
    \/ \E u \in CredUsers : Deactivate(u)
    \/ \E u \in CredUsers : DeleteUser(u)
    \/ TickSvc

Spec == Init /\ [][Next]_vars

(***************************************************************************)
(* Login under lockout, missing credentials and failing stores             *)
(***************************************************************************)
StoreCalls == {FindUserByEmail, FindCredentialsByUserId, SaveToken, SaveUser, SaveAuditLog}

\* the store calls that raise during one authenticate_user call: none, one
\* of them, or the audit store together with one other
LoginFaults == {f \in SUBSET StoreCalls : Cardinality(f \ {SaveAuditLog}) <= 1}

\* the store calls that raise during one logout_user or revoke_all_user_tokens
AuditFaults == {{}, {SaveAuditLog}}

\* a password that is not the one of the record
WrongPasswords == {"newpass9"}

\* audit events ever appended in the login specification
MaxLoginAudit == 1

\* UserCredentialsRepository.delete_by_user_id
DeleteCredentials(u) ==
    /\ u \in DOMAIN credentials
    /\ credentials' = [x \in DOMAIN credentials \ {u} |-> credentials[x]]
    /\ last' = Call("delete_credentials", NoPre, "", Ok(TRUE))
    /\ UNCHANGED <<now, users, tokens, audit, nextId, streak, lastFailAt, calls>>

\* the login specification: authenticate_user under every store fault, on a
\* record that direct verifications may have locked, at one instant
NextLogin ==
    \/ /\ Len(audit) < MaxLoginAudit
       /\ \E f \in LoginFaults, e \in Emails, p \in LoginPasswords,
             ip \in IpAddresses, ua \in UserAgents :
             AuthenticateUnder(f, e, p, ip, ua)
    \/ \E u \in CredUsers, p \in WrongPasswords : VerifyPassword(u, p)
    \/ \E u \in CredUsers : ForcePasswordChange(u)
    \/ \E u \in CredUsers : Activate(u)
    \/ \E u \in CredUsers : Deactivate(u)
    \/ \E u \in CredUsers : DeleteCredentials(u)

SpecLogin == Init /\ [][NextLogin]_vars

\* the audit-fault specification: the three operations that write an audit
\* event, with the audit store working or raising
NextAudit ==
    \/ \E f \in AuditFaults, e \in Emails, p \in LoginPasswords,
          ip \in IpAddresses, ua \in UserAgents :
          AuthenticateUnder(f, e, p, ip, ua)
    \/ \E f \in AuditFaults, tok \in PresentedTokens, ip \in IpAddresses, ua \in UserAgents :
          LogoutUserUnder(f, tok, ip, ua)
    \/ \E f \in AuditFaults, u \in CredUsers, reason \in Reasons :
          RevokeAllUserTokensUnder(f, u, reason)

SpecAudit == Init /\ [][NextAudit]_vars

(***************************************************************************)
(* Token records of two users, revoked, extended, expired and cleaned up   *)
(***************************************************************************)
\* durations offered to extend_expiry: negative, zero and positive timedeltas
AnyDeltas == {0 - SvcTickStep, 0, SvcTickStep}

\* a user id no record belongs to
UnknownUser == "u9"

\* user ids offered to revoke_all_user_tokens
RevokeTargets == Users \cup {UnknownUser}

\* reason offered to revoke on one record: the default of its argument
ManualReasons == {"Manual revocation"}

\* the records of two users, revoked in bulk, expired and cleaned up
NextTokens ==
    \/ \E u \in Users, ip \in IpAddresses, ua \in UserAgents : CreateToken(u, ip, ua)
    \/ \E u \in RevokeTargets, reason \in Reasons : RevokeAllUserTokens(u, reason)
    \/ CleanupExpiredTokens
    \/ TickSvc

SpecTokens == Init /\ [][NextTokens]_vars

\* the records of two users and the logouts that present their tokens, valid
\* or expired, of an active or deactivated user
NextLogout ==
    \/ \E u \in Users, ip \in IpAddresses, ua \in UserAgents : CreateToken(u, ip, ua)
    \/ \E tok \in PresentedTokens, ip \in IpAddresses, ua \in UserAgents :
          LogoutUser(tok, ip, ua)
    \/ \E u \in CredUsers : Deactivate(u)
    \/ \E u \in CredUsers : Activate(u)
    \/ TickSvc

SpecLogout == Init /\ [][NextLogout]_vars

\* the records of one user, extended by any duration and revoked one by one
NextExtend ==
    \/ \E u \in CredUsers, ip \in IpAddresses, ua \in UserAgents : CreateToken(u, ip, ua)
    \/ \E id \in 1..MaxTokens, d \in AnyDeltas : ExtendExpiry(id, d)
    \/ \E id \in 1..MaxTokens, reason \in ManualReasons : Revoke(id, reason)

SpecExtend == Init /\ [][NextExtend]_vars

(***************************************************************************)
(* Threads: a logout, bulk revocations, and a cleanup beside a validation, *)
(* each interleaved step by step with the calls of the other threads       *)
(***************************************************************************)
\* the thread that runs cleanup_expired_tokens and the one that validates
CleanupThread == "t1"

ValidateThread == "t2"

NextLogoutRace ==
    \/ \E u \in CredUsers, ip \in IpAddresses, ua \in UserAgents : CreateToken(u, ip, ua)
    \/ \E p \in Threads, tok \in PresentedTokens, ip \in IpAddresses, ua \in UserAgents :
          LogoutValidate(p, tok, ip, ua)
    \/ \E p \in Threads : LogoutRevoke(p)
    \/ \E p \in Threads : LogoutAudit(p)
    \/ CleanupExpiredTokens
    \/ \E id \in 1..MaxTokens : DeleteToken(id)
    \/ TickSvc

SpecLogoutRace == Init /\ [][NextLogoutRace]_vars

NextRevokeRace ==
    \/ \E u \in CredUsers, ip \in IpAddresses, ua \in UserAgents : CreateToken(u, ip, ua)
    \/ \E p \in Threads, u \in CredUsers, reason \in Reasons : RevokeUserTokensBegin(p, u, reason)
    \/ \E p \in Threads : RevokeUserTokensNext(p)
    \/ \E p \in Threads : RevokeUserTokensReturn(p)
    \/ \E tok \in PresentedTokens, ip \in IpAddresses, ua \in UserAgents :
          LogoutUser(tok, ip, ua)

SpecRevokeRace == Init /\ [][NextRevokeRace]_vars

\* records are added to the store between the scans of validate_token, not
\* during one
NextCleanupRace ==
    \/ /\ NoScan
       /\ \E u \in Users, ip \in IpAddresses, ua \in UserAgents : CreateToken(u, ip, ua)
    \/ CleanupBegin(CleanupThread)
    \/ CleanupDelete(CleanupThread)
    \/ CleanupReturn(CleanupThread)
    \/ \E tok \in PresentedTokens : ValidateBegin(ValidateThread, tok)
    \/ ValidateNext(ValidateThread)
    \/ TickSvc

SpecCleanupRace == Init /\ [][NextCleanupRace]_vars

\* two threads verify passwords against one credential record
NextVerifyRace ==
    \/ \E p \in Threads, u \in CredUsers, pw \in {InitialPassword} \cup WrongPasswords :
          VerifyBegin(p, u, pw)
    \/ \E p \in Threads : VerifyLoad(p)
    \/ \E p \in Threads : VerifyStore(p)

SpecVerifyRace == Init /\ [][NextVerifyRace]_vars

\* the emails of the registered users
UserEmails == {EmailOf(u) : u \in Users}

\* the token string every login of user u returns
TokenStringFor(u) == generate_jwt_token(create_token_payload(u))

\* two users: logins, bulk revocations, and logouts taken step by step by two
\* threads, so that the calls for one user run between the steps of a call for
\* the other
NextTwoUsers ==
    \/ \E u \in Users, ip \in IpAddresses, ua \in UserAgents : CreateToken(u, ip, ua)
    \/ \E e \in UserEmails, pw \in {InitialPassword} \cup WrongPasswords,
          ip \in IpAddresses, ua \in UserAgents : Authenticate(e, pw, ip, ua)
    \/ \E u \in Users, reason \in Reasons : RevokeAllUserTokens(u, reason)
    \/ \E p \in Threads, u \in Users, ip \in IpAddresses, ua \in UserAgents :
          LogoutValidate(p, TokenStringFor(u), ip, ua)
    \/ \E p \in Threads : LogoutRevoke(p)
    \/ \E p \in Threads : LogoutAudit(p)

SpecTwoUsers == Init /\ [][NextTwoUsers]_vars

(***************************************************************************)
(* Properties of the credential record (checked under SpecCred)            *)
(***************************************************************************)
Locked(u) ==
    /\ credentials[u].account_locked_until # NoTime
    /\ now < credentials[u].account_locked_until

LockExpired(u) ==
    /\ credentials[u].account_locked_until # NoTime
    /\ now >= credentials[u].account_locked_until

Unlocked(u) == credentials[u].account_locked_until = NoTime

\* C1: from counter 0 and no lock, k wrong non-empty verifications in a row
\* with no success, unlock or reset between them leave, for k < 5, the record
\* unlocked with failed_login_attempts = k, and for k = 5 the record locked
\* until the time of the 5th failure plus exactly 30 minutes.
C1_LockAfterFiveFailures ==
    \A u \in CredUsers :
        /\ streak[u] \in 0..5
        /\ streak[u] < 5 =>
              /\ credentials[u].failed_login_attempts = streak[u]
              /\ credentials[u].account_locked_until = NoTime
        /\ streak[u] = 5 =>
              /\ credentials[u].failed_login_attempts = 5
              /\ credentials[u].account_locked_until = lastFailAt[u] + 30

C1_Witness ==
    /\ streak["u1"] = 5
    /\ last.op = "verify_password" /\ last.pre.k = 4 /\ last.pre.arg = "wrong"
    /\ lastFailAt["u1"] = now /\ now > 0
    /\ credentials["u1"].account_locked_until = now + 30

\* C2: while the record is locked and now < account_locked_until, every
\* verify_password call (correct, wrong or empty password) raises
\* AccountLockedException and leaves the record as it was.
C2_LockedRejectsWithoutMutation ==
    [][\A u \in CredUsers, p \in Passwords :
          (Locked(u) /\ VerifyPassword(u, p)) =>
              /\ last'.exc = "AccountLockedException"
              /\ credentials' = credentials]_vars

C2_Witness ==
    /\ last.op = "verify_password" /\ last.exc = "AccountLockedException"
    /\ last.pre.state = "locked" /\ last.pre.arg = "correct"
    /\ Locked("u1") /\ now > lastFailAt["u1"]
    /\ credentials["u1"].failed_login_attempts = 5

C4_SuccessResetsCounter ==
    /\ [][\A u \in CredUsers, p \in Passwords :
             (/\ Unlocked(u)
              /\ credentials[u].failed_login_attempts \in 0..4
              /\ p # "" /\ ~WrongNonEmpty(credentials[u], p)
              /\ VerifyPassword(u, p)) =>
                 /\ last'.exc = "" /\ last'.ret.ok = TRUE
                 /\ credentials'[u].failed_login_attempts = 0
                 /\ credentials'[u].account_locked_until = NoTime]_vars
    /\ [](\A u \in CredUsers :
             credentials[u].account_locked_until # NoTime => streak[u] = 5)

C4_Witness ==
    /\ last.op = "verify_password" /\ last.ret.ok = TRUE
    /\ last.pre.state = "unlocked" /\ last.pre.k = 4
    /\ credentials["u1"].failed_login_attempts = 0
    /\ credentials["u1"].account_locked_until = NoTime

TokenStringOf(r) == r.token_hash[2]

\* C6 as stated: a successful authenticate returns a token string for which
\* an immediately following validate_token succeeds and reports the same
\* user id, also when the same user has logged in, logged out or been
\* bulk-revoked before.
C6_Original ==
    (last.op = "authenticate" /\ last.exc = "") =>
        LET v == validate_token(last.ret.token) IN
        /\ v.exc = ""
        /\ v.ret.ok = TRUE
        /\ v.ret.user_id = last.ret.user_id

\* C7: validate_token returns a success result only if a record with the
\* hash of the presented token exists, is not revoked, has now < expires_at,
\* and its user exists and is active; in every other case it raises
\* ValidationException and no other exception type.
C7_ValidateOnlyValid ==
    [][\A tok \in PresentedTokens :
          ValidateToken(tok) =>
              IF last'.exc = ""
              THEN /\ last'.ret.ok = TRUE
                   /\ \E i \in 1..Len(tokens) :
                         /\ tokens[i].token_hash = hash_token(tok)
                         /\ tokens[i].id = last'.ret.token_id
                         /\ ~tokens[i].is_revoked
                         /\ now < tokens[i].expires_at
                         /\ tokens[i].user_id \in DOMAIN users
                         /\ users[tokens[i].user_id].is_active
                         /\ last'.ret.user_id = tokens[i].user_id
              ELSE last'.exc = "ValidationException"]_vars

C7_Witness ==
    /\ last.op = "validate_token" /\ last.exc = "ValidationException"
    /\ last.pre.state = "revoked"
    /\ \E i \in 1..Len(tokens) : tokens[i].id = last.pre.k /\ tokens[i].is_revoked

\* C8 as stated: once a token record is revoked, validate_token (and so
\* logout) for that token string fails in every later state.
C8_Original ==
    \A i \in 1..Len(tokens) :
        tokens[i].is_revoked => validate_token(TokenStringOf(tokens[i])).exc # ""

\* C9: a token record with is_revoked = true never later has is_revoked =
\* false, and revoked_at / revoked_reason are set exactly when is_revoked is
\* true.
C9_RevocationMonotone ==
    /\ [](\A i \in 1..Len(tokens) :
             /\ tokens[i].is_revoked <=> tokens[i].revoked_at # NoTime
             /\ tokens[i].is_revoked <=> tokens[i].revoked_reason # NoReason)
    /\ [][\A i \in 1..Len(tokens), j \in 1..Len(tokens') :
             (tokens[i].id = tokens'[j].id /\ tokens[i].is_revoked)
                 => tokens'[j].is_revoked]_vars

C9_Witness ==
    /\ last.op = "extend_expiry" /\ last.exc = "ValidationException"
    /\ \E i \in 1..Len(tokens) :
          /\ tokens[i].id = last.pre.k
          /\ tokens[i].is_revoked
          /\ tokens[i].revoked_at # NoTime /\ tokens[i].revoked_at < now
          /\ tokens[i].revoked_reason = "User logout"

\* C10: revoke on an already revoked record, with the same or another reason
\* and at a later time, leaves revoked_at and revoked_reason as the first
\* revoke set them (the time of that call and its reason).
C10_RevokeIdempotent ==
    [][\A id \in 1..MaxTokens, reason \in Reasons :
          Revoke(id, reason) =>
              LET r == tokens[IndexOfId(id)]
                  q == tokens'[IndexOfId(id)]
              IN  IF r.is_revoked
                  THEN /\ q.revoked_at = r.revoked_at
                       /\ q.revoked_reason = r.revoked_reason
                       /\ q.is_revoked
                  ELSE /\ q.revoked_at = now
                       /\ q.revoked_reason = reason
                       /\ q.is_revoked]_vars

C10_Witness ==
    /\ last.op = "revoke" /\ last.pre.state = "revoked"
    /\ \E i \in 1..Len(tokens) :
          /\ tokens[i].id = last.pre.k
          /\ tokens[i].revoked_reason # last.pre.arg
          /\ tokens[i].revoked_at < now

(***************************************************************************)
(* Properties of token expiry (checked under Spec)                         *)
(***************************************************************************)
\* no record holding the same token string has been revoked
NeverRevoked(r) ==
    \A j \in 1..Len(tokens) : tokens[j].token_hash = r.token_hash => ~tokens[j].is_revoked

\* C11 as stated: an access token issued by a successful authenticate at time
\* T0 is accepted by validate_token at every time t with T0 <= t < T0 + 24h
\* and rejected at every t >= T0 + 24h, provided no logout or revocation of
\* it has occurred (and its expiry was not extended) and its user stays
\* active.
C11_Original ==
    \A i \in 1..Len(tokens) :
        LET r == tokens[i] IN
        (/\ r.token_type = "ACCESS"
         /\ r.expires_at = r.created_at + 24 * 60
         /\ NeverRevoked(r)
         /\ r.user_id \in DOMAIN users
         /\ users[r.user_id].is_active)
            => (validate_token(TokenStringOf(r)).exc = "" <=> now < r.created_at + 24 * 60)

(***************************************************************************)
(* Properties of authenticate_user (checked under SpecLogin)               *)
(***************************************************************************)
\* the password is the one of the record
Matches(c, p) == p # "" /\ ~WrongNonEmpty(c, p)

\* the failure reason of the audit event appended last
LastReason == audit[Len(audit)].additional_data.failure_reason

\* the step appended exactly one audit event, a failed login with this reason
AppendedFailure(u, reason) ==
    /\ Len(audit') = Len(audit) + 1
    /\ SubSeq(audit', 1, Len(audit)) = audit
    /\ LET x == audit'[Len(audit')] IN
       /\ x.event_type = "LOGIN_FAILURE"
       /\ x.success = FALSE
       /\ x.user_id = u
       /\ "failure_reason" \in x.additional_data.keys
       /\ x.additional_data.failure_reason = reason

C13_InactiveUserFrame ==
    [][\A e \in Emails, p \in LoginPasswords, ip \in IpAddresses, ua \in UserAgents :
          (/\ find_by_email(e) # NoUserId
           /\ ~users[find_by_email(e)].is_active
           /\ Authenticate(e, p, ip, ua)) =>
              /\ last'.exc = "AccountNotActivatedException"
              /\ tokens' = tokens
              /\ users' = users
              /\ credentials' = credentials
              /\ AppendedFailure(find_by_email(e), NotActivatedMsg)]_vars

C13_Witness ==
    /\ last.op = "authenticate" /\ last.exc = "AccountNotActivatedException"
    /\ ~users["u1"].is_active
    /\ "u1" \in DOMAIN credentials
    /\ credentials["u1"].failed_login_attempts = 3
    /\ users["u1"].last_login_at = NoTime
    /\ tokens = <<>>
    /\ Len(audit) = 1 /\ LastReason = NotActivatedMsg /\ ~audit[1].success

\* C14: a successful authenticate persists exactly one new token record that
\* belongs to the user, has kind ACCESS, is not revoked, expires 24h after
\* issuance and carries the request's ip address and client identifier; it
\* sets the user's last-login timestamp to now; and it appends exactly one
\* success audit event carrying that record's id and the
\* must-change-password flag, which is returned unchanged in the result.
C14_SuccessEffects ==
    [][\A e \in Emails, p \in LoginPasswords, ip \in IpAddresses, ua \in UserAgents :
          (Authenticate(e, p, ip, ua) /\ last'.exc = "") =>
              LET u == find_by_email(e)
                  r == tokens'[Len(tokens')]
                  x == audit'[Len(audit')]
              IN  /\ Len(tokens') = Len(tokens) + 1
                  /\ SubSeq(tokens', 1, Len(tokens)) = tokens
                  /\ r.id \notin TokenIds
                  /\ r.user_id = u
                  /\ r.token_type = "ACCESS"
                  /\ ~r.is_revoked
                  /\ r.expires_at = now + 24 * 60
                  /\ r.ip_address = ip
                  /\ r.user_agent = ua
                  /\ users' = [users EXCEPT ![u].last_login_at = now]
                  /\ Len(audit') = Len(audit) + 1
                  /\ SubSeq(audit', 1, Len(audit)) = audit
                  /\ x.event_type = "LOGIN_SUCCESS" /\ x.success /\ x.user_id = u
                  /\ x.additional_data.keys = {"token_id", "must_change_password"}
                  /\ x.additional_data.token_id = r.id
                  /\ x.additional_data.must_change_password
                        = credentials[u].must_change_password
                  /\ last'.ret.flag = credentials[u].must_change_password
                  /\ last'.ret.token_id = r.id]_vars

C14_Witness ==
    /\ last.op = "authenticate" /\ last.exc = "" /\ last.ret.flag = TRUE
    /\ Len(tokens) = 1 /\ tokens[1].id = last.ret.token_id
    /\ tokens[1].user_id = "u1" /\ tokens[1].token_type = "ACCESS"
    /\ tokens[1].expires_at = now + 24 * 60
    /\ users["u1"].last_login_at = now
    /\ Len(audit) = 1 /\ audit[1].success
    /\ audit[1].additional_data.token_id = tokens[1].id
    /\ audit[1].additional_data.must_change_password = TRUE

\* C15 as stated: the last-login value in the result of a successful
\* authenticate is the user's previous last-login timestamp, the value stored
\* before this call (empty on a first login), not the timestamp written by
\* this call.
C15_Original ==
    [][\A e \in Emails, p \in LoginPasswords, ip \in IpAddresses, ua \in UserAgents :
          (Authenticate(e, p, ip, ua) /\ last'.exc = "") =>
              last'.ret.at = users[find_by_email(e)].last_login_at]_vars

AuthenticateErrors ==
    {"InvalidCredentialsException", "AccountLockedException",
     "AccountNotActivatedException", "AuthenticationException"}

\* the call reaches a store call that raises
HitsFault(f, e, p) ==
    \/ FindUserByEmail \in f
    \/ LET u == find_by_email(e) IN
       /\ u # NoUserId
       /\ users[u].is_active
       /\ \/ FindCredentialsByUserId \in f
          \/ /\ u \in DOMAIN credentials
             /\ ~Locked(u)
             /\ Matches(credentials[u], p)
             /\ (SaveToken \in f \/ SaveUser \in f)

\* C17: if a step of authenticate fails with an unexpected, non-domain error
\* (a read or write of the user, credential or token store raising),
\* authenticate appends (the audit store working) an audit event with
\* success = false and failure reason "Internal error" and raises the
\* generic AuthenticationException; the original error type never reaches
\* the caller.
C17_InternalErrorIsGeneric ==
    [][/\ last'.op = "authenticate" => last'.exc \in AuthenticateErrors \cup {""}
       /\ \A f \in LoginFaults, e \in Emails, p \in LoginPasswords,
             ip \in IpAddresses, ua \in UserAgents :
             (HitsFault(f, e, p) /\ AuthenticateUnder(f, e, p, ip, ua)) =>
                 /\ last'.exc = "AuthenticationException"
                 /\ last'.ret = Failed(InternalErrorMsg)
                 /\ SaveAuditLog \notin f =>
                       AppendedFailure(IF FindUserByEmail \in f THEN NoUserId
                                       ELSE find_by_email(e),
                                       "Internal error")]_vars

C17_Witness ==
    /\ last.op = "authenticate" /\ last.exc = "AuthenticationException"
    /\ last.ret = Failed(InternalErrorMsg)
    /\ Len(tokens) = 1
    /\ users["u1"].last_login_at = now
    /\ Len(audit) = 1 /\ LastReason = "Internal error" /\ ~audit[1].success

(***************************************************************************)
(* Properties of a failing audit store (checked under SpecAudit)           *)
(***************************************************************************)
\* the exception authenticate_user raises with every store working
AuthOutcome(e, p) ==
    LET s == find_user_and_credentials({}, e) IN
    IF s.exc # "" THEN s.exc
    ELSE LET v == verify_password(credentials[s.u], p, now) IN
         IF v.exc # "" THEN v.exc
         ELSE IF ~v.ret THEN "InvalidCredentialsException"
         ELSE ""

\* C18 as stated: a failing audit-store write never propagates out of an
\* operation: when the audit store's save raises during authenticate, logout
\* or revoke_all_user_tokens, the operation still returns (or raises) exactly
\* what it would have with a working audit store.
C18_Original ==
    [][/\ \A e \in Emails, p \in LoginPasswords, ip \in IpAddresses, ua \in UserAgents :
             AuthenticateUnder({SaveAuditLog}, e, p, ip, ua) =>
                 /\ last'.exc = AuthOutcome(e, p)
                 /\ last'.ret.ok = (AuthOutcome(e, p) = "")
       /\ \A tok \in PresentedTokens, ip \in IpAddresses, ua \in UserAgents :
             LogoutUserUnder({SaveAuditLog}, tok, ip, ua) =>
                 /\ last'.exc = validate_token(tok).exc
                 /\ last'.ret.ok = (validate_token(tok).exc = "")
       /\ \A u \in CredUsers, reason \in Reasons :
             RevokeAllUserTokensUnder({SaveAuditLog}, u, reason) =>
                 /\ last'.exc = ""
                 /\ last'.ret.ok]_vars

(***************************************************************************)
(* Properties of the errors of the service (checked under Spec)            *)
(***************************************************************************)
\* C19 as stated: every domain error surfaced to the caller by authenticate,
\* validate_token or logout is preceded, within the same call, by an audit
\* event that records the true internal reason.
C19_Original ==
    [][/\ \A e \in Emails, p \in LoginPasswords, ip \in IpAddresses, ua \in UserAgents :
             (Authenticate(e, p, ip, ua) /\ last'.exc # "") =>
                 (Len(audit') = Len(audit) + 1 /\ ~audit'[Len(audit')].success)
       /\ \A tok \in PresentedTokens :
             (ValidateToken(tok) /\ last'.exc # "") =>
                 (Len(audit') = Len(audit) + 1 /\ ~audit'[Len(audit')].success)
       /\ \A tok \in PresentedTokens, ip \in IpAddresses, ua \in UserAgents :
             (LogoutUser(tok, ip, ua) /\ last'.exc # "") =>
                 (Len(audit') = Len(audit) + 1 /\ ~audit'[Len(audit')].success)]_vars

\* why validate_token fails for a presented token string: the record found
\* is revoked or expired, or the string is an issued one with its signature
\* segment altered
FailureKind(tok) ==
    IF tok = EmptyToken THEN "empty"
    ELSE LET k == find_by_token_hash(hash_token(tok)) IN
         IF k = 0
         THEN IF \E i \in 1..Len(tokens) : tok = Tampered(TokenStringOf(tokens[i]))
              THEN "tampered" ELSE "unknown"
         ELSE IF tokens[k].is_revoked THEN "revoked"
         ELSE IF is_expired(tokens[k], now) THEN "expired"
         ELSE "none"

\* C20 as stated: presenting an expired token, a revoked token and a
\* tampered token each raise ValidationException with the same message, so
\* the caller cannot distinguish the three reasons.
C20_Original ==
    \A t1 \in PresentedTokens, t2 \in PresentedTokens :
        (/\ FailureKind(t1) \in {"expired", "revoked", "tampered"}
         /\ FailureKind(t2) \in {"expired", "revoked", "tampered"}) =>
            /\ validate_token(t1).exc = "ValidationException"
            /\ validate_token(t2).exc = "ValidationException"
            /\ validate_token(t1).ret.msg = validate_token(t2).ret.msg

(***************************************************************************)
(* Properties of logout_user (checked under SpecLogout)                    *)
(***************************************************************************)
\* C21: a successful logout revokes the token record matched by the presented
\* token with reason "User logout", appends exactly one TOKEN_REVOKED audit
\* event with success = true for the token's user, and changes no other
\* token record, no user and no credential record.
C21_LogoutRevokesOnlyTheToken ==
    [][\A tok \in PresentedTokens, ip \in IpAddresses, ua \in UserAgents :
          (LogoutUser(tok, ip, ua) /\ last'.exc = "") =>
              LET i == find_by_token_hash(hash_token(tok))
                  x == audit'[Len(audit')]
              IN  /\ i # 0
                  /\ ~tokens[i].is_revoked
                  /\ tokens' = [tokens EXCEPT ![i] =
                                   [@ EXCEPT !.is_revoked = TRUE,
                                             !.revoked_at = now,
                                             !.revoked_reason = "User logout"]]
                  /\ Len(audit') = Len(audit) + 1
                  /\ SubSeq(audit', 1, Len(audit)) = audit
                  /\ x.event_type = "TOKEN_REVOKED"
                  /\ x.success
                  /\ x.user_id = tokens[i].user_id
                  /\ users' = users
                  /\ credentials' = credentials]_vars

C21_Witness ==
    /\ last.op = "logout" /\ last.exc = "" /\ last.ret.ok
    /\ Len(tokens) = 2
    /\ tokens[1].is_revoked /\ tokens[1].revoked_reason = "User logout"
    /\ tokens[2].token_hash = tokens[1].token_hash
    /\ ~tokens[2].is_revoked
    /\ Len(audit) = 1
    /\ audit[1].event_type = "TOKEN_REVOKED" /\ audit[1].user_id = tokens[1].user_id

\* validate_token rejects the presented token
Rejected(tok) ==
    \/ tok = EmptyToken
    \/ LET i == find_by_token_hash(hash_token(tok)) IN
       \/ i = 0
       \/ /\ i # 0
          /\ \/ tokens[i].is_revoked
             \/ is_expired(tokens[i], now)
             \/ tokens[i].user_id \notin DOMAIN users
             \/ ~users[tokens[i].user_id].is_active

ValidOf(u) ==
    {i \in 1..Len(tokens) :
        tokens[i].user_id = u /\ ~tokens[i].is_revoked /\ now < tokens[i].expires_at}

\* C24: when revoke_all_user_tokens(u, reason) returns n with no concurrent
\* operation, n is the number of u's token records that were valid (not
\* revoked and not expired) when the call started (0 if there were none or u
\* is unknown); each of those records is now revoked with the given reason;
\* no token of another user and no already revoked or expired record of u is
\* modified; and exactly one audit event carrying tokens_revoked = n is
\* appended.
C24_BulkRevokeCountsValidRecords ==
    [][\A u \in RevokeTargets, reason \in Reasons :
          RevokeAllUserTokens(u, reason) =>
              LET n == Cardinality(ValidOf(u))
                  x == audit'[Len(audit')]
              IN  /\ last'.exc = "" /\ last'.ret.ok
                  /\ last'.ret.n = n
                  /\ Len(tokens') = Len(tokens)
                  /\ \A i \in 1..Len(tokens) :
                        tokens'[i] =
                            IF i \in ValidOf(u)
                            THEN [tokens[i] EXCEPT !.is_revoked = TRUE,
                                                   !.revoked_at = now,
                                                   !.revoked_reason = reason]
                            ELSE tokens[i]
                  /\ Len(audit') = Len(audit) + 1
                  /\ SubSeq(audit', 1, Len(audit)) = audit
                  /\ x.event_type = "TOKEN_REVOKED"
                  /\ "tokens_revoked" \in x.additional_data.keys
                  /\ x.additional_data.tokens_revoked = n
                  /\ x.additional_data.reason = reason]_vars

C24_Witness ==
    /\ last.op = "revoke_all_user_tokens" /\ last.exc = "" /\ last.ret.n = 1
    /\ Len(tokens) = 2
    /\ tokens[1].user_id = "u1" /\ ~tokens[1].is_revoked /\ is_expired(tokens[1], now)
    /\ tokens[2].user_id = "u1" /\ tokens[2].is_revoked
    /\ tokens[2].revoked_at = now /\ tokens[2].revoked_reason = "Security revocation"
    /\ audit[Len(audit)].additional_data.tokens_revoked = 1

(***************************************************************************)
(* Properties of bulk revocations beside other threads (checked under      *)
(* SpecRevokeRace)                                                         *)
(***************************************************************************)
\* C25 as stated: a bulk revoke never double-counts a token: under any
\* interleaving of two revoke_user_tokens calls for the same user (and of a
\* bulk revoke with a logout of one of that user's tokens), each token record
\* is counted by at most one call, so that once the calls have returned the
\* sum of the returned counts equals the number of records that changed from
\* unrevoked to revoked in those calls.
C25_Original ==
    (\A p \in Threads : calls[p].op = "revoke_user_tokens" /\ calls[p].pc = "done") =>
        calls["t1"].count + calls["t2"].count = calls["t1"].changed + calls["t2"].changed

\* the positions of the records that are expired and not revoked
ExpiredUnrevoked ==
    {i \in 1..Len(tokens) : now >= tokens[i].expires_at /\ ~tokens[i].is_revoked}

\* C26: cleanup_expired_tokens deletes from the token store exactly the
\* records that are expired (now >= expires_at) and not revoked, and returns
\* the number deleted; every revoked record (expired or not) and every
\* still-valid record remains in the store unchanged.
C26_CleanupDeletesExpiredUnrevoked ==
    [][CleanupExpiredTokens =>
          /\ last'.exc = ""
          /\ last'.ret.n = Cardinality(ExpiredUnrevoked)
          /\ Len(tokens') = Len(tokens) - Cardinality(ExpiredUnrevoked)
          /\ \A i \in 1..Len(tokens) :
                IF i \in ExpiredUnrevoked
                THEN \A j \in 1..Len(tokens') : tokens'[j].id # tokens[i].id
                ELSE \E j \in 1..Len(tokens') : tokens'[j] = tokens[i]
          /\ UNCHANGED <<users, credentials, audit>>]_vars

C26_Witness ==
    /\ last.op = "cleanup_expired_tokens" /\ last.ret.n = 1
    /\ nextId = 2 /\ Len(tokens) = 1
    /\ tokens[1].is_revoked /\ is_expired(tokens[1], now)

(***************************************************************************)
(* Properties of a cleanup beside a validation (checked under              *)
(* SpecCleanupRace)                                                        *)
(***************************************************************************)
\* C27 as stated: cleanup_expired_tokens is safe under every interleaving
\* with the calls of other threads: it never deletes a token record that is
\* valid at the moment of deletion, and it never makes a validate_token call
\* fail that would have succeeded without the cleanup running (a call that
\* ends while the store holds a valid record for its token ends in success).
C27_Original ==
    [][/\ CleanupDelete(CleanupThread) =>
             \A i \in 1..Len(tokens) :
                 tokens[i].id = Head(calls[CleanupThread].snap) => ~is_valid(tokens[i], now)
       /\ (/\ ValidateNext(ValidateThread)
           /\ calls'[ValidateThread].pc = "idle"
           /\ validate_token(calls[ValidateThread].tok).exc = "") =>
                 last'.exc = ""]_vars

(***************************************************************************)
(* Properties of extend_expiry (checked under SpecExtend)                  *)
(***************************************************************************)
\* C28: extend_expiry on a revoked token record raises ValidationException
\* and leaves expires_at and every other field of the record unchanged.
C28_ExtendRevokedRejected ==
    [][\A id \in 1..MaxTokens, d \in AnyDeltas :
          (/\ id \in TokenIds
           /\ tokens[IndexOfId(id)].is_revoked
           /\ ExtendExpiry(id, d)) =>
              /\ last'.exc = "ValidationException"
              /\ tokens' = tokens]_vars

C28_Witness ==
    /\ last.op = "extend_expiry" /\ last.exc = "ValidationException"
    /\ last.pre.state = "revoked"
    /\ Len(tokens) = 1
    /\ tokens[1].is_revoked
    /\ tokens[1].expires_at = tokens[1].created_at + ACCESS_TOKEN_EXPIRY_HOURS * 60

\* C29 as stated: a token record's expiry is never shortened: for every
\* non-revoked record and every duration argument (including zero and
\* negative durations), extend_expiry leaves expires_at strictly greater than
\* it was before the call, and no other operation ever lowers expires_at.
C29_Original ==
    [][/\ \A id \in 1..MaxTokens, d \in AnyDeltas :
             (/\ id \in TokenIds
              /\ ~tokens[IndexOfId(id)].is_revoked
              /\ ExtendExpiry(id, d)) =>
                 tokens'[IndexOfId(id)].expires_at > tokens[IndexOfId(id)].expires_at
       /\ \A i \in 1..Len(tokens), j \in 1..Len(tokens') :
             tokens'[j].id = tokens[i].id => tokens'[j].expires_at >= tokens[i].expires_at]_vars

(***************************************************************************)
(* Properties of the stores authenticate_user writes (checked under        *)
(* SpecLogin)                                                              *)
(***************************************************************************)
\* C30 as stated: every authenticate call that changes the credential record
\* (counter increment, lock, or reset to 0) writes that record back through
\* the credential store's save before it returns.
C30_Original ==
    [][\A f \in LoginFaults, e \in Emails, p \in LoginPasswords,
          ip \in IpAddresses, ua \in UserAgents :
          (/\ credentials' # credentials
           /\ AuthenticateUnder(f, e, p, ip, ua)) =>
              SaveCredentials \in authenticate_saves(f, e, p)]_vars

(***************************************************************************)
(* Two verify_password calls on one record (checked under SpecVerifyRace)  *)
(***************************************************************************)
\* a failed verify_password call has just returned
FailedVerifyReturned ==
    last.op = "verify_password" /\ last.exc = "" /\ last.pre.arg = "wrong"

\* C31: a failed verify_password call that loaded the counter value k leaves
\* the counter at k + 1, whatever other failed calls stored between its load
\* and its store: nothing serializes the calls on one record, so the
\* increments of two failed attempts can collapse into one.
C31_FailedAttemptsCanCollapse ==
    \A u \in CredUsers :
        FailedVerifyReturned => credentials[u].failed_login_attempts = last.pre.k + 1

\* two failed attempts in a row have returned, both loaded k and both stored
\* k + 1: the counter is one short of the attempts made
C31_Witness ==
    /\ FailedVerifyReturned
    /\ \A p \in Threads : calls[p].pc = "idle"
    /\ streak["u1"] = last.pre.k + 2
    /\ credentials["u1"].failed_login_attempts = last.pre.k + 1
    /\ credentials["u1"].failed_login_attempts < MAX_FAILED_ATTEMPTS

(***************************************************************************)
(* Operations for different users (checked under SpecTwoUsers)             *)
(***************************************************************************)
\* the token records of user u, in the order of the store
RecordsOf(store, u) == SelectSeq(store, LAMBDA r : r.user_id = u)

\* a step of an authenticate, logout or revoke_all_user_tokens call for user a
StepFor(a) ==
    \/ \E pw \in {InitialPassword} \cup WrongPasswords, ip \in IpAddresses, ua \in UserAgents :
          Authenticate(EmailOf(a), pw, ip, ua)
    \/ \E reason \in Reasons : RevokeAllUserTokens(a, reason)
    \/ \E p \in Threads, ip \in IpAddresses, ua \in UserAgents :
          LogoutValidate(p, TokenStringFor(a), ip, ua)
    \/ \E p \in Threads : calls[p].u = a /\ (LogoutRevoke(p) \/ LogoutAudit(p))

\* C32: every step of an authenticate, logout or revoke_all_user_tokens call
\* for user a leaves the credential record, the user record and the token
\* records of every other user b unchanged, whatever calls for b have run or
\* are in flight.
C32_OtherUsersUntouched ==
    [][\A a \in Users : StepFor(a) =>
          \A b \in Users \ {a} :
              /\ credentials'[b] = credentials[b]
              /\ users'[b] = users[b]
              /\ RecordsOf(tokens', b) = RecordsOf(tokens, b)]_vars

\* u1 bulk-revoked their record while a logout of u2 was in flight and after
\* u2 failed a login: u2's record is still valid, u2's counter still 1
C32_Witness ==
    /\ last.op = "revoke_all_user_tokens" /\ last.ret.n = 1
    /\ \E p \in Threads : calls[p].pc = "validated" /\ calls[p].u = "u2"
    /\ credentials["u2"].failed_login_attempts = 1
    /\ credentials["u1"].failed_login_attempts = 0
    /\ Len(tokens) = 2
    /\ \E i \in 1..2 : tokens[i].user_id = "u2" /\ is_valid(tokens[i], now)
    /\ \E i \in 1..2 : tokens[i].user_id = "u1" /\ tokens[i].is_revoked

EvaluatedNormally(c) ==
    \A p \in Passwords :
        /\ verify_password(c, p, now).exc = ""
        /\ verify_password(c, p, now).ret = (Encodable(p) /\ checkpw(p, c.password_hash))

\* C34: reset_password with an acceptable new password and unlock_account
\* each, from any state including a lock whose window has not elapsed, leave
\* failed_login_attempts = 0 and no lock, so that the next verify_password is
\* evaluated normally; unlock_account leaves the hash and the must-change
\* flag unchanged, and force_password_change changes only the must-change
\* flag.
C34_ResetAndUnlockClearLock ==
    [][\A u \in CredUsers :
          LET c == credentials[u]
              d == credentials'[u]
          IN  /\ \A new \in Passwords :
                    (hash_password_exc(new) = "" /\ ResetPassword(u, new)) =>
                        /\ last'.exc = ""
                        /\ d = [password_hash |-> HashOf(new),
                                failed_login_attempts |-> 0,
                                account_locked_until |-> NoTime,
                                must_change_password |-> FALSE]
                        /\ EvaluatedNormally(d)
              /\ UnlockAccount(u) =>
                    /\ d = [c EXCEPT !.failed_login_attempts = 0,
                                     !.account_locked_until = NoTime]
                    /\ EvaluatedNormally(d)
              /\ ForcePasswordChange(u) =>
                    d = [c EXCEPT !.must_change_password = TRUE]]_vars

\* reset_password has just succeeded on a record that was locked with the
\* window still running
C34_Witness ==
    /\ last.op = "reset_password" /\ last.exc = ""
    /\ last.pre.state = "locked" /\ last.pre.k = 5
    /\ now < lastFailAt["u1"] + LOCKOUT_DURATION_MINUTES
    /\ credentials["u1"].password_hash = HashOf("newpass9")
    /\ credentials["u1"].failed_login_attempts = 0
    /\ credentials["u1"].account_locked_until = NoTime

\* C35: in every state reached by credential operations run one after the
\* other (verify_password, change_password, reset_password, unlock_account,
\* force_password_change, is_account_locked),
\* 0 <= failed_login_attempts <= 5, and account_locked_until is set if and
\* only if failed_login_attempts = 5.
C35_CounterAndLockAgree ==
    \A u \in CredUsers :
        /\ credentials[u].failed_login_attempts \in 0..MAX_FAILED_ATTEMPTS
        /\ credentials[u].account_locked_until # NoTime
              <=> credentials[u].failed_login_attempts = MAX_FAILED_ATTEMPTS

\* the fifth failure locked a record whose must-change flag was set by
\* force_password_change: the counter is 5 and the lock is set; the window
\* has since elapsed and no operation has looked at the record yet
C35_Witness ==
    /\ last.op = "tick"
    /\ credentials["u1"].failed_login_attempts = MAX_FAILED_ATTEMPTS
    /\ credentials["u1"].account_locked_until # NoTime
    /\ now >= credentials["u1"].account_locked_until
    /\ credentials["u1"].must_change_password

(***************************************************************************)
(* Token strings, failed logins and expiry (checked under Spec, SpecLogin  *)
(* and SpecExtend)                                                         *)
(***************************************************************************)
\* C36 as stated: no two token records in the token store have the same
\* token_hash (every successful authenticate returns a token string different
\* from every one issued before, so a lookup by hash identifies one record).
C36_Original ==
    \A i \in 1..Len(tokens), j \in 1..Len(tokens) :
        i # j => tokens[i].token_hash # tokens[j].token_hash

\* C37 as stated: whenever authenticate raises, for a domain error or for an
\* unexpected failure at any step (a failing user save after the token record
\* was saved included), the token store holds no record created by that call
\* and the user's last-login timestamp is unchanged.
C37_Original ==
    [][\A f \in LoginFaults, e \in Emails, p \in LoginPasswords,
          ip \in IpAddresses, ua \in UserAgents :
          (AuthenticateUnder(f, e, p, ip, ua) /\ last'.exc # "") =>
              /\ tokens' = tokens
              /\ users' = users]_vars

\* token record i is not revoked, has expired, and validate_token rejects
\* the token string it was created from
ExpiredAndRejected(i) ==
    /\ ~tokens[i].is_revoked
    /\ is_expired(tokens[i], now)
    /\ validate_token(TokenStringOf(tokens[i])).exc # ""

\* C38 as stated: once a non-revoked token record has expired and
\* validate_token rejects its token string, no later operation on the record
\* or the store makes validate_token accept that token string again.
C38_Original ==
    [][\A tok \in PresentedTokens :
          (\E i \in 1..Len(tokens) :
               TokenStringOf(tokens[i]) = tok /\ ExpiredAndRejected(i)) =>
              (validate_token(tok).exc # "")']_vars

(***************************************************************************)
(* What validate_token and the audit store leave alone (checked under Spec) *)
(***************************************************************************)
\* C39: validate_token is read-only: whether it succeeds or raises, it leaves
\* the user store, the credential store, the token store (the revoked flag
\* and expiry of the record it looked up included) and the audit store
\* unchanged.
C39_ValidateTokenReadOnly ==
    [][\A tok \in PresentedTokens :
          ValidateToken(tok) =>
              /\ users' = users
              /\ credentials' = credentials
              /\ tokens' = tokens
              /\ audit' = audit]_vars

\* validate_token has just rejected the token string of an expired record
\* that is still in the store, not revoked, beside a valid one
C39_Witness ==
    /\ last.op = "validate_token" /\ last.exc = "ValidationException"
    /\ last.pre.state = "expired"
    /\ Len(tokens) = 2
    /\ tokens[1].id = last.pre.k /\ ~tokens[1].is_revoked /\ is_expired(tokens[1], now)
    /\ is_valid(tokens[2], now)

\* C40: the audit store only grows: no operation of the service modifies or
\* removes an event once appended, and each authenticate call appends exactly
\* one login event whose success flag equals the outcome of that call.
C40_AuditAppendOnly ==
    [][/\ Len(audit') >= Len(audit)
       /\ \A k \in 1..Len(audit) : audit'[k] = audit[k]
       /\ \A e \in Emails, p \in LoginPasswords, ip \in IpAddresses, ua \in UserAgents :
             Authenticate(e, p, ip, ua) =>
                 /\ Len(audit') = Len(audit) + 1
                 /\ audit'[Len(audit')].event_type \in {"LOGIN_SUCCESS", "LOGIN_FAILURE"}
                 /\ audit'[Len(audit')].success = (last'.exc = "")
                 /\ audit'[Len(audit')].success
                       = (audit'[Len(audit')].event_type = "LOGIN_SUCCESS")]_vars

\* a failed login, then a successful one: the two login events are in the
\* store in that order, with success flags false and true
C40_Witness ==
    /\ Len(audit) = 2
    /\ audit[1].event_type = "LOGIN_FAILURE" /\ ~audit[1].success
    /\ audit[2].event_type = "LOGIN_SUCCESS" /\ audit[2].success
    /\ last.op = "authenticate" /\ last.exc = ""

=============================================================================
